---------------------------- MODULE Spec2Model ----------------------------
(***************************************************************************)
(* A model of dpapi-ng's client (src/src/dpapi_ng/_client.py): the         *)
(* KeyCache (load_key, _get_key, _store_key) and the protect / unprotect   *)
(* entry points that drive it, together with the blob they exchange        *)
(* (src/src/dpapi_ng/_blob.py).                                            *)
(*                                                                         *)
(* Python dicts are functions whose DOMAIN is the set of keys present, so  *)
(* the empty inner dicts that setdefault leaves behind are part of the     *)
(* state.  None is the record None; bytes that the code treats as opaque   *)
(* (seeds, keys, ciphertexts) are symbolic records, so that two of them    *)
(* are equal exactly when they were computed from the same inputs.         *)
(***************************************************************************)
EXTENDS Integers, Sequences, FiniteSets, TLC

VARIABLES
    root_keys,   \* KeyCache._root_keys : root_key_id -> RootKey
    seed_keys,   \* KeyCache._seed_keys : root_key_id -> target_sd -> l0 -> GroupKeyEnvelope
    stored_max,  \* history of SpecStore: per slot, the greatest envelope handed to _store_key
    tasks,       \* the concurrent callers of unprotect: where each is in its call, and its locals
    codec,       \* the codec in use: the value given, the bytes packed, the result unpacked
    clock,       \* the current time read by protect, and the index computed from it
    rpc          \* one get_key call: where it is, its connections, what it has sent

vars == <<root_keys, seed_keys, stored_max, tasks, codec, clock, rpc>>

-----------------------------------------------------------------------------
(* Values *)

None == [kind |-> "None"]

\* None where the value, when there is one, is a str or a UUID
NoneStr == "None"

EmptyBytes == [kind |-> "bytes", len |-> 0]

EmptyDict == [k \in {} |-> None]

\* dict.get(k, default)
Get(d, k, default) == IF k \in DOMAIN d THEN d[k] ELSE default

\* The dict after d.setdefault(k, v)
SetDefault(d, k, v) == IF k \in DOMAIN d THEN d ELSE (k :> v) @@ d

\* The dict after d[k] = v
SetItem(d, k, v) == (k :> v) @@ d

-----------------------------------------------------------------------------
(* Bounds of the model *)

\* The L1 / L2 indices drawn as inputs are 0..MaxLow and the top index 31.
MaxLow == 0

\* The top L1 / L2 index, the one _get_key gives a synthesised envelope.
TopIndex == 31

\* The clock's resolution: ticks per L2 interval.
TicksPerInterval == 1

IndexValues == (0 .. MaxLow) \cup {TopIndex}

IndexPairs == IndexValues \X IndexValues

RootKeyIds == {"rk-1", "rk-2"}

SIDs == {"S-1-5-21-1", "S-1-5-21-2"}

\* msKds-RootKeyData values that load_key is given.
RootKeyData == {"key-A"}

-----------------------------------------------------------------------------
(* Security descriptors *)

ace_to_bytes(sid, mask) == [sid |-> sid, mask |-> mask]

sd_to_bytes(owner, group, dacl) ==
    [kind |-> "sd", owner |-> owner, group |-> group, dacl |-> dacl]

\* A target security descriptor that grants the SID the mask 0x2 as well.
TargetSdOneMask(sid) ==
    sd_to_bytes("S-1-5-18", "S-1-5-18",
                <<ace_to_bytes(sid, 2), ace_to_bytes("S-1-1-0", 2)>>)

\* The target security descriptor ncrypt_protect_secret builds from a SID
\* (lines 688-692, and 860-864 in the async form).
TargetSd(sid) ==
    sd_to_bytes("S-1-5-18", "S-1-5-18",
                <<ace_to_bytes(sid, 3), ace_to_bytes("S-1-1-0", 2)>>)

\* The (root_key_id, SID, l0) triples the inputs are drawn from: one slot and
\* the three slots that differ from it in exactly one coordinate.
Targets ==
    { <<"rk-1", "S-1-5-21-1", 0>>, <<"rk-1", "S-1-5-21-1", 1>>,
      <<"rk-1", "S-1-5-21-2", 0>>, <<"rk-2", "S-1-5-21-1", 0>> }

\* The slots the sequences of _store_key calls alone go to.
StoreTargets ==
    { <<"rk-1", "S-1-5-21-1", 0>>, <<"rk-1", "S-1-5-21-1", 1>>,
      <<"rk-2", "S-1-5-21-1", 0>> }

\* The slots the entry points are called for.
CallTargets ==
    { <<"rk-1", "S-1-5-21-1", 0>>, <<"rk-2", "S-1-5-21-2", 1>> }

-----------------------------------------------------------------------------
(* Seeds.  A seed is named by the root key data it descends from and by its *)
(* position in the tree; l1 = -1 or l2 = -1 means "above that level".       *)

Seed(root, sd, id, l0, l1, l2) ==
    [kind |-> "seed", root |-> root, sd |-> sd, id |-> id,
     l0 |-> l0, l1 |-> l1, l2 |-> l2]

\* KDFParameters.pack / unpack: a small DER structure that carries the hash name.
KDFParameters_pack(hash) == [kind |-> "der-kdf", name |-> hash]

KDFParameters_unpack(b) == [hash_algorithm |-> b.name]

FFCDHParameters_pack == [kind |-> "ffcdh", key_length |-> 256]

\* Key(SD, RK, L0, 31, -1)
compute_l1_key(target_sd, root_key_id, l0, root_key, algorithm) ==
    Seed(root_key, target_sd, root_key_id, l0, TopIndex, -1)

-----------------------------------------------------------------------------
(* RootKey and GroupKeyEnvelope *)

RootKey(key, version, kdf_algorithm, kdf_parameters, secret_algorithm, secret_parameters, private_key_length, public_key_length) ==
    [kind |-> "RootKey", key |-> key, version |-> version,
     kdf_algorithm |-> kdf_algorithm, kdf_parameters |-> kdf_parameters,
     secret_algorithm |-> secret_algorithm,
     secret_parameters |-> secret_parameters,
     private_key_length |-> private_key_length,
     public_key_length |-> public_key_length]

GroupKeyEnvelope(version, flags, l0, l1, l2, root_key_identifier, kdf_algorithm, kdf_parameters, secret_algorithm, secret_parameters, private_key_length, public_key_length, domain_name, forest_name, l1_key, l2_key) ==
    [kind |-> "GroupKeyEnvelope", version |-> version, flags |-> flags,
     l0 |-> l0, l1 |-> l1, l2 |-> l2,
     root_key_identifier |-> root_key_identifier,
     kdf_algorithm |-> kdf_algorithm, kdf_parameters |-> kdf_parameters,
     secret_algorithm |-> secret_algorithm,
     secret_parameters |-> secret_parameters,
     private_key_length |-> private_key_length,
     public_key_length |-> public_key_length,
     domain_name |-> domain_name, forest_name |-> forest_name,
     l1_key |-> l1_key, l2_key |-> l2_key]

\* GroupKeyEnvelope.is_public_key (dpapi_ng._gkdi): flags bit 0
is_public_key(e) == (e.flags % 2) = 1

\* "cached dominates the request (l1, l2)"
Dominates(e, l1, l2) == e.l1 > l1 \/ (e.l1 = l1 /\ e.l2 >= l2)

-----------------------------------------------------------------------------
(* KeyCache *)

\* The RootKey load_key registers, with the defaults it fills in.
load_key_entry(key, version, kdf_algorithm, kdf_parameters, secret_algorithm, secret_parameters, private_key_length, public_key_length) ==
    LET kdf == IF kdf_parameters = None
               THEN KDFParameters_pack("SHA512") ELSE kdf_parameters
        sec == IF secret_algorithm = "DH" /\ secret_parameters = None
               THEN FFCDHParameters_pack ELSE secret_parameters
    IN RootKey(key, version, kdf_algorithm, kdf, secret_algorithm, sec,
               private_key_length, public_key_length)

\* A load_key that starts the registry afresh with the one key.
KeyCache_load_key_alone(rks, key, root_key_id, version, kdf_algorithm, kdf_parameters, secret_algorithm, secret_parameters, private_key_length, public_key_length) ==
    SetItem(EmptyDict, root_key_id,
            load_key_entry(key, version, kdf_algorithm, kdf_parameters,
                           secret_algorithm, secret_parameters,
                           private_key_length, public_key_length))

\* KeyCache.load_key: the _root_keys dict afterwards.
KeyCache_load_key(rks, key, root_key_id, version, kdf_algorithm, kdf_parameters, secret_algorithm, secret_parameters, private_key_length, public_key_length) ==
    SetItem(rks, root_key_id,
            load_key_entry(key, version, kdf_algorithm, kdf_parameters,
                           secret_algorithm, secret_parameters,
                           private_key_length, public_key_length))

\* _seed_keys.setdefault(root_key_id, {}).setdefault(target_sd, {}): the dict
\* afterwards, with both levels present.
WithSlotDict(sks, root_key_id, target_sd) ==
    LET a == SetDefault(sks, root_key_id, EmptyDict)
    IN [a EXCEPT ![root_key_id] = SetDefault(@, target_sd, EmptyDict)]

\* An envelope built from a registered root key without deriving its seed.
SynthesisedEnvelopeNoSeed(root_key, target_sd, root_key_id, l0) ==
    GroupKeyEnvelope(root_key.version, 2, l0, TopIndex, TopIndex, root_key_id,
                     root_key.kdf_algorithm, root_key.kdf_parameters,
                     root_key.secret_algorithm,
                     IF root_key.secret_parameters = None
                     THEN EmptyBytes ELSE root_key.secret_parameters,
                     root_key.private_key_length, root_key.public_key_length,
                     "", "", EmptyBytes, EmptyBytes)

\* The envelope _get_key builds from a registered root key.
SynthesisedEnvelope(root_key, target_sd, root_key_id, l0) ==
    GroupKeyEnvelope(root_key.version, 2, l0, TopIndex, TopIndex, root_key_id,
                     root_key.kdf_algorithm, root_key.kdf_parameters,
                     root_key.secret_algorithm,
                     IF root_key.secret_parameters = None
                     THEN EmptyBytes ELSE root_key.secret_parameters,
                     root_key.private_key_length, root_key.public_key_length,
                     "", "",
                     compute_l1_key(target_sd, root_key_id, l0, root_key.key,
                         KDFParameters_unpack(root_key.kdf_parameters).hash_algorithm),
                     EmptyBytes)

\* A _get_key that returns whatever the slot holds, dominating or not.
KeyCache_get_key_undominated(rks, sks, target_sd, root_key_id, l0, l1, l2) ==
    LET s1       == WithSlotDict(sks, root_key_id, target_sd)
        seed_key == Get(s1[root_key_id][target_sd], l0, None)
        root_key == Get(rks, root_key_id, None)
    IN IF seed_key # None
       THEN [ret |-> seed_key, seed_keys |-> s1]
       ELSE IF root_key # None
       THEN LET gke == SynthesisedEnvelope(root_key, target_sd, root_key_id, l0)
                s2  == [s1 EXCEPT ![root_key_id][target_sd] =
                                      SetDefault(@, l0, gke)]
            IN [ret |-> s2[root_key_id][target_sd][l0], seed_keys |-> s2]
       ELSE [ret |-> None, seed_keys |-> s1]

\* A _get_key that synthesises only for a slot that holds nothing.
KeyCache_get_key_empty_slot_only(rks, sks, target_sd, root_key_id, l0, l1, l2) ==
    LET s1       == WithSlotDict(sks, root_key_id, target_sd)
        seed_key == Get(s1[root_key_id][target_sd], l0, None)
        root_key == Get(rks, root_key_id, None)
    IN IF seed_key # None /\ Dominates(seed_key, l1, l2)
       THEN [ret |-> seed_key, seed_keys |-> s1]
       ELSE IF root_key # None /\ seed_key = None
       THEN LET gke == SynthesisedEnvelope(root_key, target_sd, root_key_id, l0)
                s2  == [s1 EXCEPT ![root_key_id][target_sd] =
                                      SetDefault(@, l0, gke)]
            IN [ret |-> s2[root_key_id][target_sd][l0], seed_keys |-> s2]
       ELSE [ret |-> None, seed_keys |-> s1]

\* A _get_key that synthesises from whichever root key is registered.
KeyCache_get_key_any_root(rks, sks, target_sd, root_key_id, l0, l1, l2) ==
    LET s1       == WithSlotDict(sks, root_key_id, target_sd)
        seed_key == Get(s1[root_key_id][target_sd], l0, None)
        root_key == IF DOMAIN rks = {} THEN None
                    ELSE rks[CHOOSE i \in DOMAIN rks : i # root_key_id \/ DOMAIN rks = {i}]
    IN IF seed_key # None /\ Dominates(seed_key, l1, l2)
       THEN [ret |-> seed_key, seed_keys |-> s1]
       ELSE IF root_key # None
       THEN LET gke == SynthesisedEnvelope(root_key, target_sd, root_key_id, l0)
                s2  == [s1 EXCEPT ![root_key_id][target_sd] =
                                      SetDefault(@, l0, gke)]
            IN [ret |-> s2[root_key_id][target_sd][l0], seed_keys |-> s2]
       ELSE [ret |-> None, seed_keys |-> s1]

\* KeyCache._get_key: what it returns (ret) and the _seed_keys dict afterwards.
KeyCache_get_key(rks, sks, target_sd, root_key_id, l0, l1, l2) ==
    LET s1       == WithSlotDict(sks, root_key_id, target_sd)
        seed_key == Get(s1[root_key_id][target_sd], l0, None)
        root_key == Get(rks, root_key_id, None)
    IN IF seed_key # None /\ Dominates(seed_key, l1, l2)
       THEN [ret |-> seed_key, seed_keys |-> s1]
       ELSE IF root_key # None
       THEN LET gke == SynthesisedEnvelope(root_key, target_sd, root_key_id, l0)
                s2  == [s1 EXCEPT ![root_key_id][target_sd] =
                                      SetDefault(@, l0, gke)]
            IN [ret |-> s2[root_key_id][target_sd][l0], seed_keys |-> s2]
       ELSE [ret |-> None, seed_keys |-> s1]

\* A _store_key that also replaces an entry of the same (l1, l2).
StoreReplacesOnEqual(existing, key) ==
    \/ existing = None
    \/ key.l1 > existing.l1
    \/ (key.l1 = existing.l1 /\ key.l2 >= existing.l2)

\* The test of _store_key: does key go into the slot that holds existing?
StoreReplaces(existing, key) ==
    \/ existing = None
    \/ key.l1 > existing.l1
    \/ (key.l1 = existing.l1 /\ key.l2 > existing.l2)

\* A _store_key that files the envelope under its l1.
KeyCache_store_key_at_l1(sks, target_sd, key) ==
    LET s1       == WithSlotDict(sks, key.root_key_identifier, target_sd)
        existing == Get(s1[key.root_key_identifier][target_sd], key.l0, None)
    IN IF StoreReplaces(existing, key)
       THEN [s1 EXCEPT ![key.root_key_identifier][target_sd] =
                           SetItem(@, key.l1, key)]
       ELSE s1

\* KeyCache._store_key: the _seed_keys dict afterwards.
KeyCache_store_key(sks, target_sd, key) ==
    LET s1       == WithSlotDict(sks, key.root_key_identifier, target_sd)
        existing == Get(s1[key.root_key_identifier][target_sd], key.l0, None)
    IN IF StoreReplaces(existing, key)
       THEN [s1 EXCEPT ![key.root_key_identifier][target_sd] =
                           SetItem(@, key.l0, key)]
       ELSE s1

\* The envelope held in a slot, None when the slot (or a dict above it) is absent.
Slot(sks, root_key_id, target_sd, l0) ==
    IF root_key_id \in DOMAIN sks /\ target_sd \in DOMAIN sks[root_key_id]
    THEN Get(sks[root_key_id][target_sd], l0, None)
    ELSE None

-----------------------------------------------------------------------------
(* The GetKey server, as far as the cache can tell: the envelopes it may    *)
(* return.  The domain's own root key data is "key-A" for rk-1 and "key-B"  *)
(* for rk-2, so a loaded key may or may not be the domain's.                *)

DomainRootKeyData(id) == IF id = "rk-1" THEN "key-A" ELSE "key-B"

PublicKey(seed) == [kind |-> "pubkey", of |-> seed]

\* A GetKey response for (target_sd, id, l0, l1, l2): flags 1 carries the
\* group public key, flags 2 the L2 seed and, for the L1 intervals below, the
\* L1 seed of l1 - 1; flags 0 the L1 seed.
ServerEnvelope(target_sd, id, l0, l1, l2, flags) ==
    LET root == DomainRootKeyData(id)
        l1k  == IF flags = 0
                THEN Seed(root, target_sd, id, l0, l1, -1)
                ELSE IF flags = 2 /\ l1 > 0
                THEN Seed(root, target_sd, id, l0, l1 - 1, -1)
                ELSE EmptyBytes
        l2k  == IF flags = 2 THEN Seed(root, target_sd, id, l0, l1, l2)
                ELSE IF flags = 1
                THEN PublicKey(Seed(root, target_sd, id, l0, l1, l2))
                ELSE EmptyBytes
    IN GroupKeyEnvelope(1, flags, l0, l1, l2, id, "SP800_108_CTR_HMAC",
                        KDFParameters_pack("SHA512"), "DH",
                        FFCDHParameters_pack, 512, 2048,
                        "domain.test", "domain.test", l1k, l2k)

-----------------------------------------------------------------------------
(* Results.  A call returns Ok(value) or raises Err(type, at).              *)

Ok(v) == [kind |-> "ok", value |-> v]

Err(type, at) == [kind |-> "error", type |-> type, at |-> at]

IsOk(r) == r.kind = "ok"

-----------------------------------------------------------------------------
(* KeyIdentifier and DPAPINGBlob *)

KeyIdentifier(version, flags, l0, l1, l2, root_key_identifier, key_info, domain_name, forest_name) ==
    [kind |-> "KeyIdentifier", version |-> version, flags |-> flags,
     l0 |-> l0, l1 |-> l1, l2 |-> l2,
     root_key_identifier |-> root_key_identifier, key_info |-> key_info,
     domain_name |-> domain_name, forest_name |-> forest_name]

\* KeyIdentifier.magic: b"\x4B\x44\x53\x4B", "KDSK"
KeyIdentifier_magic == <<75, 68, 83, 75>>

\* KeyIdentifier.pack, field by field: the fields behind the magic.  (The
\* bytes it writes are KeyIdentifier_pack_bytes below.)
KeyIdentifier_pack(ki) ==
    [kind |-> "packed-KeyIdentifier", magic |-> KeyIdentifier_magic, version |-> ki.version,
     flags |-> ki.flags, l0 |-> ki.l0, l1 |-> ki.l1, l2 |-> ki.l2,
     root_key_identifier |-> ki.root_key_identifier, key_info |-> ki.key_info,
     domain_name |-> ki.domain_name, forest_name |-> ki.forest_name]

\* A KeyIdentifier.unpack that does not look at the magic.
KeyIdentifier_unpack_any_magic(b) ==
    Ok(KeyIdentifier(b.version, b.flags, b.l0, b.l1, b.l2,
                     b.root_key_identifier, b.key_info,
                     b.domain_name, b.forest_name))

\* KeyIdentifier.unpack, field by field
KeyIdentifier_unpack(b) ==
    IF b.magic # KeyIdentifier_magic
    THEN Err("ValueError", "KeyIdentifier.unpack")
    ELSE Ok(KeyIdentifier(b.version, b.flags, b.l0, b.l1, b.l2,
                          b.root_key_identifier, b.key_info,
                          b.domain_name, b.forest_name))

-----------------------------------------------------------------------------
(* The bytes of a KeyIdentifier.  Here bytes are sequences of 0..255, an    *)
(* int is a TLA+ integer, a str is the sequence of its code points (of the  *)
(* Basic Multilingual Plane, surrogates excluded: two bytes each in         *)
(* UTF-16), and a UUID is the sequence of its 16 bytes in network order.    *)

\* n.to_bytes(4, byteorder="little"): unsigned, so a negative n (or one of
\* 2^32 and more) raises OverflowError
to_bytes(n) ==
    IF n < 0 THEN Err("OverflowError", "to_bytes")
    ELSE Ok(<<n % 256, (n \div 256) % 256, (n \div 65536) % 256,
              (n \div 16777216) % 256>>)

\* int.from_bytes(b, byteorder="little") of at most four bytes: unsigned
from_bytes(b) ==
    LET byte(i) == IF i <= Len(b) THEN b[i] ELSE 0
    IN byte(1) + 256 * byte(2) + 65536 * byte(3) + 16777216 * byte(4)

\* view[start:stop] with start >= 0; a negative stop counts from the end
Slice(view, start, stop) ==
    LET n  == Len(view)
        hi == IF stop < 0 THEN (IF n + stop < 0 THEN 0 ELSE n + stop)
              ELSE (IF stop > n THEN n ELSE stop)
        lo == IF start > n THEN n ELSE start
    IN SubSeq(view, lo + 1, hi)

\* s.encode("utf-16-le")
encode_utf16le(s) ==
    [i \in 1 .. 2 * Len(s) |->
        IF i % 2 = 1 THEN s[(i + 1) \div 2] % 256 ELSE s[i \div 2] \div 256]

\* b.decode("utf-16-le"): UnicodeDecodeError for a truncated code unit (a
\* lone surrogate, which raises too, is not among the inputs)
decode_utf16le(b) ==
    IF Len(b) % 2 = 1 THEN Err("UnicodeDecodeError", "decode")
    ELSE Ok([i \in 1 .. Len(b) \div 2 |-> b[2 * i - 1] + 256 * b[2 * i]])

\* UUID.bytes_le of a UUID, and the UUID of UUID(bytes_le=b): the first
\* three fields byte-swapped, the same permutation both ways
bytes_le(u) ==
    <<u[4], u[3], u[2], u[1], u[6], u[5], u[8], u[7]>> \o SubSeq(u, 9, 16)

\* KeyIdentifier.pack: the bytes, or the OverflowError of a to_bytes
KeyIdentifier_pack_bytes(ki) ==
    LET b_domain_name == encode_utf16le(ki.domain_name \o <<0>>)
        b_forest_name == encode_utf16le(ki.forest_name \o <<0>>)
        ints == << to_bytes(ki.version), to_bytes(ki.flags), to_bytes(ki.l0),
                   to_bytes(ki.l1), to_bytes(ki.l2),
                   to_bytes(Len(ki.key_info)), to_bytes(Len(b_domain_name)),
                   to_bytes(Len(b_forest_name)) >>
    IN IF \E i \in DOMAIN ints : ~IsOk(ints[i])
       THEN Err("OverflowError", "KeyIdentifier.pack")
       ELSE Ok(ints[1].value \o KeyIdentifier_magic \o ints[2].value
               \o ints[3].value \o ints[4].value \o ints[5].value
               \o bytes_le(ki.root_key_identifier)
               \o ints[6].value \o ints[7].value \o ints[8].value
               \o ki.key_info \o b_domain_name \o b_forest_name)

\* KeyIdentifier.unpack of bytes
KeyIdentifier_unpack_bytes(data) ==
    IF Slice(data, 4, 8) # KeyIdentifier_magic
    THEN Err("ValueError", "KeyIdentifier.unpack")
    ELSE IF Len(Slice(data, 24, 40)) # 16
    THEN Err("ValueError", "UUID")
    ELSE LET key_info_len == from_bytes(Slice(data, 40, 44))
             domain_len   == from_bytes(Slice(data, 44, 48))
             forest_len   == from_bytes(Slice(data, 48, 52))
             view1  == Slice(data, 52, Len(data))
             view2  == Slice(view1, key_info_len, Len(view1))
             domain == decode_utf16le(Slice(view2, 0, domain_len - 2))
             view3  == Slice(view2, domain_len, Len(view2))
             forest == decode_utf16le(Slice(view3, 0, forest_len - 2))
         IN IF ~IsOk(domain) THEN domain
            ELSE IF ~IsOk(forest) THEN forest
            ELSE Ok(KeyIdentifier(
                     from_bytes(Slice(data, 0, 4)),
                     from_bytes(Slice(data, 8, 12)),
                     from_bytes(Slice(data, 12, 16)),
                     from_bytes(Slice(data, 16, 20)),
                     from_bytes(Slice(data, 20, 24)),
                     bytes_le(Slice(data, 24, 40)),
                     Slice(view1, 0, key_info_len),
                     domain.value, forest.value))

-----------------------------------------------------------------------------
(* DPAPINGBlob *)

DPAPINGBlob(key_identifier, security_descriptor, enc_cek, enc_cek_algorithm, enc_cek_parameters, enc_content, enc_content_algorithm, enc_content_parameters) ==
    [kind |-> "DPAPINGBlob", key_identifier |-> key_identifier,
     security_descriptor |-> security_descriptor, enc_cek |-> enc_cek,
     enc_cek_algorithm |-> enc_cek_algorithm,
     enc_cek_parameters |-> enc_cek_parameters, enc_content |-> enc_content,
     enc_content_algorithm |-> enc_content_algorithm,
     enc_content_parameters |-> enc_content_parameters]

CONTENT_TYPE_ENVELOPED_DATA_OID == "1.2.840.113549.1.7.3"

CONTENT_TYPE_DATA_OID == "1.2.840.113549.1.7.1"

MICROSOFT_SOFTWARE_OID == "1.3.6.1.4.1.311.74.1"

MICROSOFT_SOFTWARE_SYSTEMS_OID == "1.3.6.1.4.1.311.74.1.1"

AES256_WRAP == "2.16.840.1.101.3.4.1.45"

AES256_GCM == "2.16.840.1.101.3.4.1.46"

\* DPAPINGBlob.pack: the ContentInfo it writes and the bytes it appends.
DPAPINGBlob_pack(blob, protection_descriptor, blob_in_envelope) ==
    [kind |-> "ContentInfo",
     content_type |-> CONTENT_TYPE_ENVELOPED_DATA_OID,
     version |-> 2,
     recipient_infos |->
        << [type |-> "KEKRecipientInfo", version |-> 4,
            kekid |-> [key_identifier |-> KeyIdentifier_pack(blob.key_identifier),
                       other |-> [key_attr_id |-> MICROSOFT_SOFTWARE_OID,
                                  key_attr |->
                                    [content_type |-> MICROSOFT_SOFTWARE_SYSTEMS_OID,
                                     type |-> "SID",
                                     value |-> protection_descriptor]]],
            key_encryption_algorithm |->
                [algorithm |-> blob.enc_cek_algorithm, parameters |-> None],
            encrypted_key |-> blob.enc_cek] >>,
     encrypted_content_info |->
        [content_type |-> CONTENT_TYPE_DATA_OID,
         algorithm |-> [algorithm |-> blob.enc_content_algorithm,
                        parameters |-> IF blob.enc_content_parameters \in {None, EmptyBytes}
                                       THEN None ELSE blob.enc_content_parameters],
         content |-> IF blob_in_envelope THEN blob.enc_content ELSE None],
     remaining_data |-> IF blob_in_envelope THEN EmptyBytes ELSE blob.enc_content]

\* Lines 240-245: the EnvelopedData is not version 2 with exactly one
\* recipient, a KEKRecipientInfo of version 4.  (This one accepts any
\* EnvelopedData version.)
UnexpectedFormatAnyVersion(enveloped_data) ==
    \/ Len(enveloped_data.recipient_infos) # 1
    \/ enveloped_data.recipient_infos[1].type # "KEKRecipientInfo"
    \/ enveloped_data.recipient_infos[1].version # 4

\* Lines 240-245: the EnvelopedData is not version 2 with exactly one
\* recipient, a KEKRecipientInfo of version 4.
UnexpectedFormat(enveloped_data) ==
    \/ enveloped_data.version # 2
    \/ Len(enveloped_data.recipient_infos) # 1
    \/ enveloped_data.recipient_infos[1].type # "KEKRecipientInfo"
    \/ enveloped_data.recipient_infos[1].version # 4

\* Lines 255-258: the protection descriptor is not a SID descriptor.
UnsupportedDescriptor(protection_descriptor) ==
    \/ protection_descriptor.content_type # MICROSOFT_SOFTWARE_SYSTEMS_OID
    \/ protection_descriptor.type # "SID"

\* An enc_content taken from the envelope alone.
EncContentEnvelopeOnly(content, remaining_data) == content

\* Line 274: content or remaining_data.tobytes()
EncContent(content, remaining_data) ==
    IF content \in {None, EmptyBytes} THEN remaining_data ELSE content

\* DPAPINGBlob.unpack
DPAPINGBlob_unpack(data) ==
    IF data.content_type # CONTENT_TYPE_ENVELOPED_DATA_OID
    THEN Err("ValueError", "content type")
    ELSE IF UnexpectedFormat(data)
    THEN Err("ValueError", "format")
    ELSE LET kek_info == data.recipient_infos[1]
             key_identifier == KeyIdentifier_unpack(kek_info.kekid.key_identifier)
         IN IF ~IsOk(key_identifier) THEN key_identifier
            ELSE IF \/ kek_info.kekid.other = None
                    \/ kek_info.kekid.other.key_attr_id # MICROSOFT_SOFTWARE_OID
            THEN Err("ValueError", "KEK Id")
            ELSE LET protection_descriptor == kek_info.kekid.other.key_attr
                 IN IF UnsupportedDescriptor(protection_descriptor)
                    THEN Err("ValueError", "protection descriptor")
                    ELSE LET eci == data.encrypted_content_info
                         IN Ok(DPAPINGBlob(
                                key_identifier.value,
                                sd_to_bytes("S-1-5-18", "S-1-5-18",
                                    <<ace_to_bytes(protection_descriptor.value, 3),
                                      ace_to_bytes("S-1-1-0", 2)>>),
                                kek_info.encrypted_key,
                                kek_info.key_encryption_algorithm.algorithm,
                                kek_info.key_encryption_algorithm.parameters,
                                EncContent(eci.content, data.remaining_data),
                                eci.algorithm.algorithm,
                                eci.algorithm.parameters))

-----------------------------------------------------------------------------
(* Key derivation and content crypto (dpapi_ng._gkdi, dpapi_ng._crypto),    *)
(* as abstract operators: a derived key is named by what it was derived     *)
(* from, and decryption undoes encryption under the same key only.          *)

\* The L2 seed at (request_l1, request_l2) from the envelope rk: refused when
\* rk does not dominate the request; refined from l2_key when rk holds the L2
\* seed of that very L1, otherwise walked down from l1_key.
compute_l2_key(algorithm, request_l1, request_l2, rk) ==
    IF ~Dominates(rk, request_l1, request_l2)
    THEN Err("ValueError", "compute_l2_key")
    ELSE IF rk.l2_key # EmptyBytes /\ rk.l2_key.kind = "seed" /\ rk.l1 = request_l1
    THEN Ok([rk.l2_key EXCEPT !.l2 = request_l2])
    ELSE IF rk.l1_key # EmptyBytes
    THEN Ok([rk.l1_key EXCEPT !.l1 = request_l1, !.l2 = request_l2])
    ELSE Err("ValueError", "compute_l2_key")

\* SP800-108 KEK from the L2 seed and the KDF context in key_info
compute_kek(algorithm, l2_key, key_info) ==
    [kind |-> "kek", seed |-> l2_key, context |-> key_info]

\* The KEK both sides of a secret agreement reach: the group key pair that
\* descends from the L2 seed, and the ephemeral key pair.
compute_kek_from_public_key(algorithm, l2_key, ephemeral) ==
    [kind |-> "kek-dh", seed |-> l2_key, ephemeral |-> ephemeral]

\* GroupKeyEnvelope.get_kek
get_kek(rk, key_identifier) ==
    IF is_public_key(rk) \/ rk.l0 # key_identifier.l0
    THEN Err("ValueError", "get_kek")
    ELSE LET algorithm == KDFParameters_unpack(rk.kdf_parameters).hash_algorithm
             l2_key == compute_l2_key(algorithm, key_identifier.l1,
                                      key_identifier.l2, rk)
         IN IF ~IsOk(l2_key) THEN l2_key
            ELSE IF (key_identifier.flags % 2) = 1
            THEN IF key_identifier.key_info.kind = "pubkey"
                 THEN Ok(compute_kek_from_public_key(algorithm, l2_key.value,
                                                     key_identifier.key_info.of))
                 ELSE Err("ValueError", "get_kek")
            ELSE Ok(compute_kek(algorithm, l2_key.value, key_identifier.key_info))

\* GroupKeyEnvelope.new_kek: the KEK and the KeyIdentifier that names it;
\* random is what the call draws (a KDF context, or an ephemeral key pair).
new_kek(rk, random) ==
    LET algorithm == KDFParameters_unpack(rk.kdf_parameters).hash_algorithm
    IN IF is_public_key(rk)
       THEN Ok([kek |-> compute_kek_from_public_key(algorithm, rk.l2_key.of, random),
                key_identifier |->
                    KeyIdentifier(1, 1, rk.l0, rk.l1, rk.l2,
                                  rk.root_key_identifier, PublicKey(random),
                                  rk.domain_name, rk.forest_name)])
       ELSE LET l2_key == compute_l2_key(algorithm, rk.l1, rk.l2, rk)
            IN IF ~IsOk(l2_key) THEN l2_key
               ELSE Ok([kek |-> compute_kek(algorithm, l2_key.value, random),
                        key_identifier |->
                            KeyIdentifier(1, 0, rk.l0, rk.l1, rk.l2,
                                          rk.root_key_identifier, random,
                                          rk.domain_name, rk.forest_name)])

\* AES key wrap and unwrap
cek_encrypt(algorithm, parameters, kek, cek) ==
    [kind |-> "wrapped", kek |-> kek, cek |-> cek, intact |-> TRUE]

cek_decrypt(algorithm, parameters, kek, value) ==
    IF value.kind = "wrapped" /\ value.intact /\ value.kek = kek
    THEN Ok(value.cek) ELSE Err("DecryptionFailed", "cek_decrypt")

\* AES-GCM
content_encrypt(algorithm, parameters, cek, value) ==
    [kind |-> "gcm", cek |-> cek, parameters |-> parameters,
     plaintext |-> value, intact |-> TRUE]

content_decrypt(algorithm, parameters, cek, value) ==
    IF /\ value.kind = "gcm" /\ value.intact
       /\ value.cek = cek /\ value.parameters = parameters
    THEN Ok(value.plaintext) ELSE Err("DecryptionFailed", "content_decrypt")

\* A _decrypt_blob that returns what the ciphertext holds without verifying
\* the GCM tag.
decrypt_blob_unverified(blob, key) ==
    LET kek == get_kek(key, blob.key_identifier)
    IN IF ~IsOk(kek) THEN kek
       ELSE LET cek == cek_decrypt(blob.enc_cek_algorithm, blob.enc_cek_parameters,
                                   kek.value, blob.enc_cek)
            IN IF ~IsOk(cek) THEN cek ELSE Ok(blob.enc_content.plaintext)

\* _decrypt_blob
decrypt_blob(blob, key) ==
    LET kek == get_kek(key, blob.key_identifier)
    IN IF ~IsOk(kek) THEN kek
       ELSE LET cek == cek_decrypt(blob.enc_cek_algorithm, blob.enc_cek_parameters,
                                   kek.value, blob.enc_cek)
            IN IF ~IsOk(cek) THEN cek
               ELSE content_decrypt(blob.enc_content_algorithm,
                                    blob.enc_content_parameters,
                                    cek.value, blob.enc_content)

\* _encrypt_blob; random is what cek_generate and new_kek draw.
encrypt_blob(blob, key, security_descriptor, protection_descriptor, random) ==
    LET enc_cek_algorithm == AES256_WRAP
        cek == [kind |-> "cek", random |-> random.cek]
        cek_iv == random.iv
        enc_content_algorithm == AES256_GCM
        enc_content_parameters == [kind |-> "der-gcm", iv |-> cek_iv, tag_len |-> 16]
        enc_content == content_encrypt(enc_content_algorithm,
                                       enc_content_parameters, cek, blob)
        k == new_kek(key, random.kek)
    IN IF ~IsOk(k) THEN k
       ELSE Ok(DPAPINGBlob_pack(
                DPAPINGBlob(k.value.key_identifier, security_descriptor,
                            cek_encrypt(enc_cek_algorithm, None, k.value.kek, cek),
                            enc_cek_algorithm, None, enc_content,
                            enc_content_algorithm, enc_content_parameters),
                protection_descriptor, TRUE))

-----------------------------------------------------------------------------
(* The collaborators: what a call to them may come back with *)

\* lookup_dc / async_lookup_dc: an SRV record, or the resolver's error
lookup_dc(domain_name) ==
    {Ok([target |-> "dc-1"]), Err("TransportError", "lookup_dc")}

\* The slots a GetKey answer for this request may be for: the root key and L0
\* that were asked, the server's choice where the request leaves them open.
AnswerTargets(target_sd, root_key_id, l0) ==
    {t \in CallTargets : /\ TargetSd(t[2]) = target_sd
                     /\ (root_key_id = NoneStr \/ t[1] = root_key_id)
                     /\ (l0 = -1 \/ t[3] = l0)}

\* _sync_get_key / _async_get_key: the envelope GetKey answers with (the
\* public key, or the L2 seed, of any L1 / L2 the server chooses), or the
\* ValueError / transport error of a failed exchange
sync_get_key(server, target_sd, root_key_id, l0, l1, l2) ==
    {Err("TransportError", "get_key")} \cup
    {Ok(ServerEnvelope(target_sd, t[1], t[3], p[1], p[2], f)) :
        t \in AnswerTargets(target_sd, root_key_id, l0),
        p \in IndexPairs, f \in {1, 2}}

\* await async_lookup_dc(...): what lookup_dc may come back with, or the
\* CancelledError thrown into the coroutine when the task is cancelled while
\* it is suspended there
async_lookup_dc(domain_name) ==
    lookup_dc(domain_name) \cup {Err("CancelledError", "lookup_dc")}

\* await _async_get_key(...): what _sync_get_key may come back with, or the
\* CancelledError of a task cancelled while the RPC is in flight
async_get_key(server, target_sd, root_key_id, l0, l1, l2) ==
    sync_get_key(server, target_sd, root_key_id, l0, l1, l2)
        \cup {Err("CancelledError", "get_key")}

-----------------------------------------------------------------------------
(* The entry points.  Each is the set of ways one call can go: every        *)
(* element gives the result, the _seed_keys dict afterwards, the calls      *)
(* made, in order, and the envelope the call came to hold (rk; None when it *)
(* got none).                                                               *)

Outcome(result, sks, calls, rk) ==
    [result |-> result, seed_keys |-> sks, calls |-> calls, rk |-> rk]

CacheGet(target_sd, root_key_id, l0, l1, l2) ==
    [call |-> "cache_get", target_sd |-> target_sd, root_key_id |-> root_key_id,
     l0 |-> l0, l1 |-> l1, l2 |-> l2]

LookupDc(domain_name) == [call |-> "lookup_dc", domain_name |-> domain_name]

GetKeyCall(server, target_sd, root_key_id, l0, l1, l2) ==
    [call |-> "get_key", server |-> server, target_sd |-> target_sd,
     root_key_id |-> root_key_id, l0 |-> l0, l1 |-> l1, l2 |-> l2]

CacheStore(target_sd, key) ==
    [call |-> "cache_store", target_sd |-> target_sd, key |-> key]

Crypto(what) == [call |-> what]

\* A miss branch that catches what lookup_dc or get_key raised and raises an
\* error of its own in its place.
FetchKeyWrapped(server, domain_name, target_sd, root_key_id, l0, l1, l2, calls) ==
    LET resolved == IF server = NoneStr
                    THEN {[srv |-> d, calls |-> Append(calls, LookupDc(domain_name))] :
                            d \in lookup_dc(domain_name)}
                    ELSE {[srv |-> Ok([target |-> server]), calls |-> calls]}
    IN UNION {
        IF ~IsOk(r.srv) THEN {[key |-> Err("RuntimeError", r.srv.at), calls |-> r.calls]}
        ELSE { [key |-> IF IsOk(k) THEN k ELSE Err("RuntimeError", k.at),
                calls |-> Append(r.calls, GetKeyCall(r.srv.value.target, target_sd,
                                                     root_key_id, l0, l1, l2))] :
                 k \in sync_get_key(r.srv.value.target, target_sd,
                                    root_key_id, l0, l1, l2) }
        : r \in resolved }

\* A miss branch that never resolves a DC: it calls get_key with the server
\* it was given, even when that is None.
FetchKeyUnresolved(server, domain_name, target_sd, root_key_id, l0, l1, l2, calls) ==
    { [key |-> k,
       calls |-> Append(calls, GetKeyCall(server, target_sd, root_key_id, l0, l1, l2))] :
        k \in sync_get_key(server, target_sd, root_key_id, l0, l1, l2) }

\* A miss branch that refuses to go on when no server was given.
FetchKeyRequiresServer(server, domain_name, target_sd, root_key_id, l0, l1, l2, calls) ==
    IF server = NoneStr
    THEN {[key |-> Err("KeyUnavailable", "server"), calls |-> calls]}
    ELSE { [key |-> k,
            calls |-> Append(calls, GetKeyCall(server, target_sd, root_key_id, l0, l1, l2))] :
             k \in sync_get_key(server, target_sd, root_key_id, l0, l1, l2) }

\* The miss branch of the entry points: lookup_dc when no server was given,
\* then get_key.  Each element is one way it can go: the envelope or the
\* error (key), and the calls made up to there.
FetchKey(server, domain_name, target_sd, root_key_id, l0, l1, l2, calls) ==
    LET resolved == IF server = NoneStr
                    THEN {[srv |-> d, calls |-> Append(calls, LookupDc(domain_name))] :
                            d \in lookup_dc(domain_name)}
                    ELSE {[srv |-> Ok([target |-> server]), calls |-> calls]}
    IN UNION {
        IF ~IsOk(r.srv) THEN {[key |-> r.srv, calls |-> r.calls]}
        ELSE { [key |-> k,
                calls |-> Append(r.calls, GetKeyCall(r.srv.value.target, target_sd,
                                                     root_key_id, l0, l1, l2))] :
                 k \in sync_get_key(r.srv.value.target, target_sd,
                                    root_key_id, l0, l1, l2) }
        : r \in resolved }

\* An async miss branch that resolves a DC of its own even when it was given
\* a server.
AsyncFetchKeyAlwaysResolves(server, domain_name, target_sd, root_key_id, l0, l1, l2, calls) ==
    UNION {
        IF ~IsOk(d) THEN {[key |-> d, calls |-> Append(calls, LookupDc(domain_name))]}
        ELSE { [key |-> k,
                calls |-> Append(Append(calls, LookupDc(domain_name)),
                                 GetKeyCall(d.value.target, target_sd,
                                            root_key_id, l0, l1, l2))] :
                 k \in async_get_key(d.value.target, target_sd,
                                     root_key_id, l0, l1, l2) }
        : d \in async_lookup_dc(domain_name) }

\* The miss branch of the async entry points: the same, with the two awaits.
AsyncFetchKey(server, domain_name, target_sd, root_key_id, l0, l1, l2, calls) ==
    LET resolved == IF server = NoneStr
                    THEN {[srv |-> d, calls |-> Append(calls, LookupDc(domain_name))] :
                            d \in async_lookup_dc(domain_name)}
                    ELSE {[srv |-> Ok([target |-> server]), calls |-> calls]}
    IN UNION {
        IF ~IsOk(r.srv) THEN {[key |-> r.srv, calls |-> r.calls]}
        ELSE { [key |-> k,
                calls |-> Append(r.calls, GetKeyCall(r.srv.value.target, target_sd,
                                                     root_key_id, l0, l1, l2))] :
                 k \in async_get_key(r.srv.value.target, target_sd,
                                     root_key_id, l0, l1, l2) }
        : r \in resolved }

\* A tail of unprotect that stores whatever envelope it has.
UnprotectWithAnyStored(blob, rk, sks, calls) ==
    Outcome(decrypt_blob(blob, rk),
            KeyCache_store_key(sks, blob.security_descriptor, rk),
            Append(Append(calls, CacheStore(blob.security_descriptor, rk)),
                   Crypto("decrypt_blob")), rk)

\* The tail of unprotect: store unless public key, then decrypt.
UnprotectWith(blob, rk, sks, calls) ==
    LET stored == ~is_public_key(rk)
        s  == IF stored
              THEN KeyCache_store_key(sks, blob.security_descriptor, rk) ELSE sks
        c  == IF stored
              THEN Append(calls, CacheStore(blob.security_descriptor, rk))
              ELSE calls
    IN Outcome(decrypt_blob(blob, rk), s, Append(c, Crypto("decrypt_blob")), rk)

ncrypt_unprotect_secret(rks, sks, data, server) ==
    LET unpacked == DPAPINGBlob_unpack(data)
    IN IF ~IsOk(unpacked) THEN {Outcome(unpacked, sks, <<>>, None)}
       ELSE LET blob == unpacked.value
                ki   == blob.key_identifier
                got  == KeyCache_get_key(rks, sks, blob.security_descriptor,
                                         ki.root_key_identifier, ki.l0, ki.l1, ki.l2)
                c1   == <<CacheGet(blob.security_descriptor,
                                   ki.root_key_identifier, ki.l0, ki.l1, ki.l2)>>
            IN IF got.ret # None
               THEN {UnprotectWith(blob, got.ret, got.seed_keys, c1)}
               ELSE { IF IsOk(f.key)
                      THEN UnprotectWith(blob, f.key.value, got.seed_keys, f.calls)
                      ELSE Outcome(f.key, got.seed_keys, f.calls, None) :
                        f \in FetchKey(server, ki.domain_name,
                                       blob.security_descriptor,
                                       ki.root_key_identifier, ki.l0, ki.l1, ki.l2, c1) }

\* The current-time index of _get_protection_gke_from_cache.  There base is
\* 360000000000 units of 100 ns; here the clock counts TicksPerInterval ticks
\* per L2 interval.  (Unit by unit the index is TimeIndexFloat below, which
\* is this one but for the last microsecond before an L0 boundary.)
base == TicksPerInterval

TimeIndex(current_time) ==
    [l0 |-> current_time \div (32 * 32 * base),
     l1 |-> (current_time % (32 * 32 * base)) \div (32 * base),
     l2 |-> (current_time % (32 * base)) \div base]

\* A _get_protection_gke_from_cache that never looks into the cache.
get_protection_gke_never_probes(rks, sks, root_key_identifier, target_sd, current_time) ==
    [ret |-> None, seed_keys |-> sks, calls |-> <<>>]

\* _get_protection_gke_from_cache: ret is None, Ok(envelope), or the error
\* compute_l2_key raised.
get_protection_gke_from_cache(rks, sks, root_key_identifier, target_sd, current_time) ==
    IF root_key_identifier = NoneStr
    THEN [ret |-> None, seed_keys |-> sks, calls |-> <<>>]
    ELSE LET i   == TimeIndex(current_time)
             got == KeyCache_get_key(rks, sks, target_sd, root_key_identifier,
                                     i.l0, i.l1, i.l2)
             c1  == <<CacheGet(target_sd, root_key_identifier, i.l0, i.l1, i.l2)>>
             rk  == got.ret
         IN IF rk = None
            THEN [ret |-> None, seed_keys |-> got.seed_keys, calls |-> c1]
            ELSE LET l2_key == compute_l2_key(
                                   KDFParameters_unpack(rk.kdf_parameters).hash_algorithm,
                                   i.l1, i.l2, rk)
                 IN [ret |-> IF ~IsOk(l2_key) THEN l2_key
                             ELSE Ok(GroupKeyEnvelope(
                                     rk.version, rk.flags, i.l0, i.l1, i.l2,
                                     root_key_identifier, rk.kdf_algorithm,
                                     rk.kdf_parameters, rk.secret_algorithm,
                                     rk.secret_parameters, rk.private_key_length,
                                     rk.public_key_length, rk.domain_name,
                                     rk.forest_name, EmptyBytes, l2_key.value)),
                     seed_keys |-> got.seed_keys,
                     calls |-> Append(c1, Crypto("compute_l2_key"))]

\* A tail of protect that stores whatever envelope it has.
ProtectWithAnyStored(data, rk, sd, protection_descriptor, sks, calls, random) ==
    Outcome(encrypt_blob(data, rk, sd, protection_descriptor, random),
            KeyCache_store_key(sks, sd, rk),
            Append(Append(calls, CacheStore(sd, rk)), Crypto("encrypt_blob")), rk)

\* A tail of protect that stores nothing.
ProtectWithNothingStored(data, rk, sd, protection_descriptor, sks, calls, random) ==
    Outcome(encrypt_blob(data, rk, sd, protection_descriptor, random), sks,
            Append(calls, Crypto("encrypt_blob")), rk)

\* The tail of protect: store unless public key, then encrypt.
ProtectWith(data, rk, sd, protection_descriptor, sks, calls, random) ==
    LET stored == ~is_public_key(rk)
        s  == IF stored THEN KeyCache_store_key(sks, sd, rk) ELSE sks
        c  == IF stored THEN Append(calls, CacheStore(sd, rk)) ELSE calls
    IN Outcome(encrypt_blob(data, rk, sd, protection_descriptor, random), s,
               Append(c, Crypto("encrypt_blob")), rk)

ncrypt_protect_secret(rks, sks, data, protection_descriptor, root_key_identifier, server, domain_name, current_time, random) ==
    LET sd == TargetSd(protection_descriptor)
        cached == get_protection_gke_from_cache(rks, sks, root_key_identifier,
                                                sd, current_time)
    IN IF cached.ret = None
       THEN { IF IsOk(f.key)
              THEN ProtectWith(data, f.key.value, sd, protection_descriptor,
                               cached.seed_keys, f.calls, random)
              ELSE Outcome(f.key, cached.seed_keys, f.calls, None) :
                f \in FetchKey(server, domain_name, sd, root_key_identifier,
                               -1, -1, -1, cached.calls) }
       ELSE IF ~IsOk(cached.ret)
       THEN {Outcome(cached.ret, cached.seed_keys, cached.calls, None)}
       ELSE {ProtectWith(data, cached.ret.value, sd, protection_descriptor,
                         cached.seed_keys, cached.calls, random)}

\* async_ncrypt_unprotect_secret, awaited until it returns or raises
async_ncrypt_unprotect_secret(rks, sks, data, server) ==
    LET unpacked == DPAPINGBlob_unpack(data)
    IN IF ~IsOk(unpacked) THEN {Outcome(unpacked, sks, <<>>, None)}
       ELSE LET blob == unpacked.value
                ki   == blob.key_identifier
                got  == KeyCache_get_key(rks, sks, blob.security_descriptor,
                                         ki.root_key_identifier, ki.l0, ki.l1, ki.l2)
                c1   == <<CacheGet(blob.security_descriptor,
                                   ki.root_key_identifier, ki.l0, ki.l1, ki.l2)>>
            IN IF got.ret # None
               THEN {UnprotectWith(blob, got.ret, got.seed_keys, c1)}
               ELSE { IF IsOk(f.key)
                      THEN UnprotectWith(blob, f.key.value, got.seed_keys, f.calls)
                      ELSE Outcome(f.key, got.seed_keys, f.calls, None) :
                        f \in AsyncFetchKey(server, ki.domain_name,
                                            blob.security_descriptor,
                                            ki.root_key_identifier, ki.l0, ki.l1,
                                            ki.l2, c1) }

\* async_ncrypt_protect_secret, awaited until it returns or raises
async_ncrypt_protect_secret(rks, sks, data, protection_descriptor, root_key_identifier, server, domain_name, current_time, random) ==
    LET sd == TargetSd(protection_descriptor)
        cached == get_protection_gke_from_cache(rks, sks, root_key_identifier,
                                                sd, current_time)
    IN IF cached.ret = None
       THEN { IF IsOk(f.key)
              THEN ProtectWith(data, f.key.value, sd, protection_descriptor,
                               cached.seed_keys, f.calls, random)
              ELSE Outcome(f.key, cached.seed_keys, f.calls, None) :
                f \in AsyncFetchKey(server, domain_name, sd, root_key_identifier,
                                    -1, -1, -1, cached.calls) }
       ELSE IF ~IsOk(cached.ret)
       THEN {Outcome(cached.ret, cached.seed_keys, cached.calls, None)}
       ELSE {ProtectWith(data, cached.ret.value, sd, protection_descriptor,
                         cached.seed_keys, cached.calls, random)}

-----------------------------------------------------------------------------
(* Inputs of the entry points *)

Plaintexts == {"hello", "secret"}

Servers == {NoneStr, "dc-1"}

\* What one protect call draws at random.
Random ==
    [cek |-> "cek-1", iv |-> "iv-1", kek |-> [kind |-> "random", n |-> 1]]

\* The times whose index is (l0, l1, l2): the first and the last tick of the
\* L2 interval.
TimesAt(l0, l1, l2) ==
    { ((l0 * 32 + l1) * 32 + l2) * base + r : r \in {0, base - 1} }

\* The blob a protector holding the GetKey answer of flags f (the L2 seed, or
\* the public key) for slot t at (l1, l2) = p makes of data.
BlobFor(t, p, f, data) ==
    encrypt_blob(data, ServerEnvelope(TargetSd(t[2]), t[1], t[3], p[1], p[2], f),
                 TargetSd(t[2]), t[2], Random).value

\* The same blob with the last byte of its ciphertext corrupted.
CorruptContent(b) ==
    [b EXCEPT !.encrypted_content_info.content.intact = FALSE]

\* One blob per slot and index: what unprotect does to the cache depends on
\* the blob's key identifier and SID alone.
SlotBlobs == { BlobFor(t, p, 2, "hello") : t \in CallTargets, p \in IndexPairs }

\* Blobs made with the group public key: key_identifier.is_public_key is set.
PublicBlobs == { BlobFor(t, p, 1, "hello") : t \in CallTargets, p \in IndexPairs }

\* Valid blobs of either kind, and the same with the ciphertext corrupted.
CorruptBlobs ==
    { CorruptContent(b) : b \in SlotBlobs \cup PublicBlobs }

\* The concurrent callers that share the KeyCache.
TaskIds == {"A", "B"}

\* The blobs concurrent callers unprotect: all of one root key id, SID and
\* L0, of every (L1, L2).
TaskBlobs == { BlobFor(<<"rk-1", "S-1-5-21-1", 0>>, p, 2, "hello") : p \in IndexPairs }

-----------------------------------------------------------------------------
(* History *)

Pair(e) == [l1 |-> e.l1, l2 |-> e.l2]

LexLess(p, q) == p.l1 < q.l1 \/ (p.l1 = q.l1 /\ p.l2 < q.l2)

\* The first envelope, among those handed to _store_key for one slot, whose
\* (l1, l2) is the lexicographic maximum of them all.
MaxStored(old, key) ==
    IF old = None \/ LexLess(Pair(old), Pair(key)) THEN key ELSE old

-----------------------------------------------------------------------------
(* Operations of the KeyCache, called directly *)

Init ==
    /\ root_keys = EmptyDict
    /\ seed_keys = EmptyDict
    /\ stored_max = [t \in Targets |-> None]
    /\ tasks = [i \in TaskIds |->
                [pc |-> "idle", blob |-> None, server |-> NoneStr, rk |-> None,
                 existing |-> None, result |-> None, rpcs |-> 0]]
    /\ codec = [stage |-> "none"]
    /\ clock = [stage |-> "none"]
    /\ rpc = [pc |-> "none"]

LoadKey ==
    \E id \in RootKeyIds, key \in RootKeyData :
        /\ root_keys' = KeyCache_load_key(root_keys, key, id, 1,
                            "SP800_108_CTR_HMAC", None, "DH", None, 512, 2048)
        /\ UNCHANGED <<seed_keys, stored_max, tasks, codec, clock, rpc>>

\* _store_key(TargetSd(sid), key) for an envelope of slot t
StoreStep(t, key) ==
    /\ seed_keys' = KeyCache_store_key(seed_keys, TargetSd(t[2]), key)
    /\ UNCHANGED <<root_keys, tasks, codec, clock, rpc>>

StoreKeyLogged ==
    \E t \in StoreTargets, p \in IndexPairs, f \in {0, 2} :
        LET key == ServerEnvelope(TargetSd(t[2]), t[1], t[3], p[1], p[2], f)
        IN /\ StoreStep(t, key)
           /\ stored_max' = [stored_max EXCEPT ![t] = MaxStored(@, key)]

StoreKey ==
    \E t \in Targets, p \in IndexPairs :
        /\ StoreStep(t, ServerEnvelope(TargetSd(t[2]), t[1], t[3], p[1], p[2], 2))
        /\ UNCHANGED stored_max

Lookup ==
    \E t \in Targets, p \in IndexPairs :
        /\ seed_keys' = KeyCache_get_key(root_keys, seed_keys, TargetSd(t[2]),
                                         t[1], t[3], p[1], p[2]).seed_keys
        /\ UNCHANGED <<root_keys, stored_max, tasks, codec, clock, rpc>>

\* Stores alone.
SpecStore == Init /\ [][StoreKeyLogged]_vars

NextCache == LoadKey \/ StoreKey \/ Lookup

\* The cache driven through load_key, _store_key and _get_key.
SpecCache == Init /\ [][NextCache]_vars

-----------------------------------------------------------------------------
(* The entry points as operations on one shared KeyCache.  A call changes   *)
(* the cache by its _seed_keys dict alone, so each operation steps to the    *)
(* dict of one of the ways the call can go.                                  *)

Unprotect ==
    \E data \in SlotBlobs, server \in Servers :
        \E sk \in {o.seed_keys : o \in ncrypt_unprotect_secret(root_keys, seed_keys, data, server)} :
            /\ seed_keys' = sk
            /\ UNCHANGED <<root_keys, stored_max, tasks, codec, clock, rpc>>

AsyncUnprotect ==
    \E data \in SlotBlobs, server \in Servers :
        \E sk \in {o.seed_keys : o \in async_ncrypt_unprotect_secret(root_keys, seed_keys, data, server)} :
            /\ seed_keys' = sk
            /\ UNCHANGED <<root_keys, stored_max, tasks, codec, clock, rpc>>

\* The (root_key_identifier, SID, time) a protect call is given: no root key
\* id, or a slot and a time in it.
ProtectInputs ==
    { <<NoneStr, sid, 0>> : sid \in SIDs } \cup
    UNION { { <<t[1], t[2], now>> : now \in TimesAt(t[3], p[1], p[2]) } :
                t \in CallTargets, p \in IndexPairs }

Protect ==
    \E inp \in ProtectInputs, server \in Servers :
        \E sk \in {o.seed_keys : o \in ncrypt_protect_secret(root_keys, seed_keys, "hello", inp[2], inp[1],
                                       server, "domain.test", inp[3], Random)} :
            /\ seed_keys' = sk
            /\ UNCHANGED <<root_keys, stored_max, tasks, codec, clock, rpc>>

AsyncProtect ==
    \E inp \in ProtectInputs, server \in Servers :
        \E sk \in {o.seed_keys : o \in async_ncrypt_protect_secret(root_keys, seed_keys, "hello", inp[2],
                                             inp[1], server, "domain.test", inp[3],
                                             Random)} :
            /\ seed_keys' = sk
            /\ UNCHANGED <<root_keys, stored_max, tasks, codec, clock, rpc>>

Next == LoadKey \/ Unprotect \/ Protect \/ AsyncUnprotect \/ AsyncProtect

\* One KeyCache driven through load_key and the four entry points.
Spec == Init /\ [][Next]_vars

-----------------------------------------------------------------------------
(* Concurrent async callers: tasks of one event loop, each running          *)
(* async_ncrypt_unprotect_secret once on the shared, initially empty        *)
(* KeyCache.  A task runs without interruption from one await to the next,  *)
(* so each step is the code between two awaits; a task suspended at an      *)
(* await may be cancelled there.  rpcs counts the get_key calls a task has  *)
(* issued.                                                                  *)

\* Lines 766-776, and 793-796 on a hit: unpack, probe the cache, and either
\* finish with the cached envelope or go to the first await.
TaskStart(i) ==
    /\ tasks[i].pc = "idle"
    /\ \E data \in TaskBlobs, server \in Servers :
         LET unpacked == DPAPINGBlob_unpack(data)
             blob == unpacked.value
             ki   == blob.key_identifier
             got  == KeyCache_get_key(root_keys, seed_keys, blob.security_descriptor,
                                      ki.root_key_identifier, ki.l0, ki.l1, ki.l2)
             hit  == UnprotectWith(blob, got.ret, got.seed_keys, <<>>)
         IN IF ~IsOk(unpacked)
            THEN /\ tasks' = [tasks EXCEPT ![i].pc = "done", ![i].result = unpacked]
                 /\ UNCHANGED seed_keys
            ELSE IF got.ret # None
            THEN /\ seed_keys' = hit.seed_keys
                 /\ tasks' = [tasks EXCEPT ![i].pc = "done", ![i].blob = blob,
                                           ![i].server = server, ![i].rk = got.ret,
                                           ![i].result = hit.result]
            ELSE /\ seed_keys' = got.seed_keys
                 /\ tasks' = [tasks EXCEPT
                                ![i].pc = IF server = NoneStr THEN "lookup" ELSE "rpc",
                                ![i].blob = blob, ![i].server = server,
                                ![i].rpcs = IF server = NoneStr THEN 0 ELSE 1]
    /\ UNCHANGED <<root_keys, stored_max, codec, clock, rpc>>

\* Lines 778-781: async_lookup_dc comes back; on success get_key is called.
TaskLookupDone(i) ==
    /\ tasks[i].pc = "lookup"
    /\ \E d \in lookup_dc(tasks[i].blob.key_identifier.domain_name) :
         tasks' = IF IsOk(d)
                  THEN [tasks EXCEPT ![i].pc = "rpc", ![i].server = d.value.target,
                                     ![i].rpcs = 1]
                  ELSE [tasks EXCEPT ![i].pc = "done", ![i].result = d]
    /\ UNCHANGED <<root_keys, seed_keys, stored_max, codec, clock, rpc>>

\* Lines 781-796: _async_get_key comes back; on success the envelope is
\* stored unless it is a public key, and the blob decrypted.
TaskRpcDone(i) ==
    /\ tasks[i].pc = "rpc"
    /\ LET blob == tasks[i].blob
           ki   == blob.key_identifier
       IN \E k \in sync_get_key(tasks[i].server, blob.security_descriptor,
                                ki.root_key_identifier, ki.l0, ki.l1, ki.l2) :
            IF IsOk(k)
            THEN LET o == UnprotectWith(blob, k.value, seed_keys, <<>>)
                 IN /\ seed_keys' = o.seed_keys
                    /\ tasks' = [tasks EXCEPT ![i].pc = "done", ![i].rk = k.value,
                                              ![i].result = o.result]
            ELSE /\ tasks' = [tasks EXCEPT ![i].pc = "done", ![i].result = k]
                 /\ UNCHANGED seed_keys
    /\ UNCHANGED <<root_keys, stored_max, codec, clock, rpc>>

\* The task is cancelled while suspended at line 778 or 781: CancelledError
\* is raised there and leaves the call.
TaskCancel(i) ==
    /\ tasks[i].pc \in {"lookup", "rpc"}
    /\ tasks' = [tasks EXCEPT
                   ![i].pc = "done",
                   ![i].result = Err("CancelledError",
                                     IF tasks[i].pc = "lookup" THEN "lookup_dc"
                                     ELSE "get_key")]
    /\ UNCHANGED <<root_keys, seed_keys, stored_max, codec, clock, rpc>>

NextTasks ==
    \E i \in TaskIds :
        TaskStart(i) \/ TaskLookupDone(i) \/ TaskRpcDone(i) \/ TaskCancel(i)

\* Two tasks, each calling async_ncrypt_unprotect_secret once, under every
\* interleaving the event loop allows.
SpecTasks == Init /\ [][NextTasks]_vars

-----------------------------------------------------------------------------
(* Concurrent blocking callers: threads, each running                       *)
(* ncrypt_unprotect_secret once on the shared, initially empty KeyCache.    *)
(* Nothing in the code holds a lock, so another thread may run between any  *)
(* two statements; the steps here are the probe, the blocking fetch, and    *)
(* the two halves of _store_key: the read of the slot and the assignment.   *)

\* Lines 593-603: unpack and probe the cache.
ThreadCall(i) ==
    /\ tasks[i].pc = "idle"
    /\ \E data \in TaskBlobs, server \in Servers :
         LET unpacked == DPAPINGBlob_unpack(data)
             blob == unpacked.value
             ki   == blob.key_identifier
             got  == KeyCache_get_key(root_keys, seed_keys, blob.security_descriptor,
                                      ki.root_key_identifier, ki.l0, ki.l1, ki.l2)
         IN IF ~IsOk(unpacked)
            THEN /\ tasks' = [tasks EXCEPT ![i].pc = "done", ![i].result = unpacked]
                 /\ UNCHANGED seed_keys
            ELSE /\ seed_keys' = got.seed_keys
                 /\ tasks' = [tasks EXCEPT
                                ![i].pc = IF got.ret # None THEN "store" ELSE "fetch",
                                ![i].blob = blob, ![i].server = server,
                                ![i].rk = got.ret]
    /\ UNCHANGED <<root_keys, stored_max, codec, clock, rpc>>

\* Lines 604-619: lookup_dc when no server was given, then _sync_get_key.
ThreadFetchDone(i) ==
    /\ tasks[i].pc = "fetch"
    /\ LET blob == tasks[i].blob
           ki   == blob.key_identifier
       IN \E f \in FetchKey(tasks[i].server, ki.domain_name, blob.security_descriptor,
                            ki.root_key_identifier, ki.l0, ki.l1, ki.l2, <<>>) :
            tasks' = IF IsOk(f.key)
                     THEN [tasks EXCEPT ![i].pc = "store", ![i].rk = f.key.value,
                                        ![i].rpcs = 1]
                     ELSE [tasks EXCEPT ![i].pc = "done", ![i].result = f.key,
                                        ![i].rpcs = IF f.calls[Len(f.calls)].call = "get_key"
                                                     THEN 1 ELSE 0]
    /\ UNCHANGED <<root_keys, seed_keys, stored_max, codec, clock, rpc>>

\* Lines 621-622 and 541-543: unless rk is a public key, _store_key is
\* entered and reads the slot into existing.  (A public key skips the store,
\* and line 624 decrypts.)
ThreadStoreRead(i) ==
    /\ tasks[i].pc = "store"
    /\ LET blob == tasks[i].blob
           rk   == tasks[i].rk
           s1   == WithSlotDict(seed_keys, rk.root_key_identifier,
                                blob.security_descriptor)
       IN IF is_public_key(rk)
          THEN /\ tasks' = [tasks EXCEPT ![i].pc = "done",
                                         ![i].result = decrypt_blob(blob, rk)]
               /\ UNCHANGED seed_keys
          ELSE /\ seed_keys' = s1
               /\ tasks' = [tasks EXCEPT
                              ![i].pc = "assign",
                              ![i].existing =
                                  Get(s1[rk.root_key_identifier][blob.security_descriptor],
                                      rk.l0, None)]
    /\ UNCHANGED <<root_keys, stored_max, codec, clock, rpc>>

\* Lines 544-545, then 624: the test on the value read, the assignment, and
\* the decryption.
ThreadStoreAssign(i) ==
    /\ tasks[i].pc = "assign"
    /\ LET blob == tasks[i].blob
           rk   == tasks[i].rk
       IN /\ seed_keys' =
                IF StoreReplaces(tasks[i].existing, rk)
                THEN [seed_keys EXCEPT
                        ![rk.root_key_identifier][blob.security_descriptor] =
                            SetItem(@, rk.l0, rk)]
                ELSE seed_keys
          /\ tasks' = [tasks EXCEPT ![i].pc = "done",
                                    ![i].result = decrypt_blob(blob, rk)]
    /\ UNCHANGED <<root_keys, stored_max, codec, clock, rpc>>

NextThreads ==
    \E i \in TaskIds :
        \/ ThreadCall(i) \/ ThreadFetchDone(i)
        \/ ThreadStoreRead(i) \/ ThreadStoreAssign(i)

\* Two threads, each calling ncrypt_unprotect_secret once, under every
\* interleaving of their steps.
SpecThreads == Init /\ [][NextThreads]_vars

-----------------------------------------------------------------------------
(* The codecs on their own.  A run starts from a KeyIdentifier or from a    *)
(* DPAPINGBlob and a SID, packs it, possibly damages the packed form, and   *)
(* unpacks it (or hands it to ncrypt_unprotect_secret with an empty cache). *)
(* codec.intact says that what is unpacked is what pack wrote.              *)

\* The KeyIdentifiers packed: indices from the sentinel -1 to 2^31 - 1, key
\* info and names empty and not, a name with a NUL and with code points of
\* one and of two significant bytes.
CodecKeyIdentifiers ==
    { KeyIdentifier(1, f, l0, l1, l2, u, k, d, n) :
        f \in {0, 1}, l0 \in {-1, 0, 361, 2147483647}, l1 \in {0, 31},
        l2 \in {-1, 31},
        u \in { [i \in 1 .. 16 |-> i], [i \in 1 .. 16 |-> 256 - i] },
        k \in { <<>>, <<0, 255, 16>> },
        d \in { <<>>, <<100, 0, 8364>> },
        n \in { <<>>, <<102>> } }

\* The DPAPINGBlobs packed, each with the SID its security descriptor is
\* for: what _encrypt_blob makes with a seed and with a public key, and the
\* same with CEK parameters, without content parameters or with empty ones,
\* and with empty content.
CodecBlobs ==
    LET same == [kind |-> "same"]
    IN { [blob |-> [b EXCEPT !.security_descriptor = TargetSd(sid),
                             !.enc_cek_parameters = cp,
                             !.enc_content_parameters = IF xp = same THEN @ ELSE xp,
                             !.enc_content = IF x = same THEN @ ELSE x],
          sid |-> sid] :
           b \in { DPAPINGBlob_unpack(BlobFor(<<"rk-1", "S-1-5-21-1", 0>>, <<0, 0>>, f, "hello")).value :
                     f \in {1, 2} },
           sid \in SIDs,
           cp \in {None, [kind |-> "bytes", len |-> 2]},
           xp \in {same, None, EmptyBytes},
           x \in {same, EmptyBytes} }

InitCodec ==
    /\ root_keys = EmptyDict
    /\ seed_keys = EmptyDict
    /\ stored_max = [t \in Targets |-> None]
    /\ tasks = [i \in TaskIds |->
                [pc |-> "idle", blob |-> None, server |-> NoneStr, rk |-> None,
                 existing |-> None, result |-> None, rpcs |-> 0]]
    /\ codec \in { [stage |-> "ki", input |-> ki, intact |-> TRUE] :
                     ki \in CodecKeyIdentifiers }
           \cup { [stage |-> "blob", input |-> b, intact |-> TRUE, flaws |-> {}] :
                     b \in CodecBlobs }
    /\ clock = [stage |-> "none"]
    /\ rpc = [pc |-> "none"]

\* KeyIdentifier.pack
KeyIdentifierPack ==
    /\ codec.stage = "ki"
    /\ LET packed == KeyIdentifier_pack_bytes(codec.input)
       IN codec' = IF IsOk(packed)
                   THEN [stage |-> "ki_wire", input |-> codec.input,
                         intact |-> TRUE, wire |-> packed.value]
                   ELSE [stage |-> "ki_out", input |-> codec.input,
                         intact |-> TRUE, wire |-> <<>>, out |-> packed]
    /\ UNCHANGED <<root_keys, seed_keys, stored_max, tasks, clock, rpc>>

\* The packed KeyIdentifier with one of bytes 4..8 changed, possibly cut
\* short, possibly with another byte changed as well.
KeyIdentifierCorrupt ==
    /\ codec.stage = "ki_wire" /\ codec.intact
    /\ \E i \in 5 .. 8, x \in {0, 255}, j \in {0, 1, 45}, n \in {0, 6, 8, 30, Len(codec.wire)} :
         LET w1 == [codec.wire EXCEPT ![i] = x]
             w2 == IF j = 0 THEN w1 ELSE [w1 EXCEPT ![j] = 127]
         IN codec' = [codec EXCEPT !.intact = FALSE, !.wire = Slice(w2, 0, n)]
    /\ UNCHANGED <<root_keys, seed_keys, stored_max, tasks, clock, rpc>>

\* KeyIdentifier.unpack
KeyIdentifierUnpack ==
    /\ codec.stage = "ki_wire"
    /\ codec' = [stage |-> "ki_out", input |-> codec.input, intact |-> codec.intact,
                 wire |-> codec.wire, out |-> KeyIdentifier_unpack_bytes(codec.wire)]
    /\ UNCHANGED <<root_keys, seed_keys, stored_max, tasks, clock, rpc>>

\* DPAPINGBlob.pack, with the content in the envelope or appended
BlobPack ==
    /\ codec.stage = "blob"
    /\ \E blob_in_envelope \in BOOLEAN :
         codec' = [stage |-> "blob_wire", input |-> codec.input, intact |-> TRUE,
                   flaws |-> {}, blob_in_envelope |-> blob_in_envelope,
                   wire |-> DPAPINGBlob_pack(codec.input.blob, codec.input.sid,
                                             blob_in_envelope)]
    /\ UNCHANGED <<root_keys, seed_keys, stored_max, tasks, clock, rpc>>

\* The packed blob with one flaw more, two at most: another content type,
\* EnvelopedData version, number, type or version of recipients, no
\* kekid.other or another OID in it, another protection descriptor type or
\* OID, another magic, or bytes after the ContentInfo.
BlobCorrupt ==
    LET w == codec.wire
        Flaws ==
            { "content_type", "version", "no_recipient", "two_recipients",
              "recipient_type", "recipient_version", "no_other", "other_oid",
              "descriptor_type", "descriptor_oid", "magic", "trailing" }
        Flawed(flaw) ==
            CASE flaw = "content_type" -> [w EXCEPT !.content_type = CONTENT_TYPE_DATA_OID]
              [] flaw = "version" -> [w EXCEPT !.version = 3]
              [] flaw = "no_recipient" -> [w EXCEPT !.recipient_infos = <<>>]
              [] flaw = "two_recipients" -> [w EXCEPT !.recipient_infos = @ \o @]
              [] flaw = "recipient_type" ->
                    [w EXCEPT !.recipient_infos[1].type = "KeyTransRecipientInfo"]
              [] flaw = "recipient_version" ->
                    [w EXCEPT !.recipient_infos[1].version = 2]
              [] flaw = "no_other" ->
                    [w EXCEPT !.recipient_infos[1].kekid.other = None]
              [] flaw = "other_oid" ->
                    [w EXCEPT !.recipient_infos[1].kekid.other.key_attr_id =
                                  MICROSOFT_SOFTWARE_SYSTEMS_OID]
              [] flaw = "descriptor_type" ->
                    [w EXCEPT !.recipient_infos[1].kekid.other.key_attr.type = "LOCAL"]
              [] flaw = "descriptor_oid" ->
                    [w EXCEPT !.recipient_infos[1].kekid.other.key_attr.content_type =
                                  MICROSOFT_SOFTWARE_OID]
              [] flaw = "magic" ->
                    [w EXCEPT !.recipient_infos[1].kekid.key_identifier.magic =
                                  <<75, 68, 83, 0>>]
              [] flaw = "trailing" ->
                    [w EXCEPT !.remaining_data = [kind |-> "bytes", len |-> 3]]
    IN /\ codec.stage = "blob_wire" /\ Cardinality(codec.flaws) < 2
       /\ \E flaw \in Flaws \ codec.flaws :
            /\ flaw \in {"recipient_type", "recipient_version", "no_other", "other_oid",
                         "descriptor_type", "descriptor_oid", "magic"} =>
                  /\ Len(w.recipient_infos) >= 1
                  /\ w.recipient_infos[1].kekid.other # None
            /\ codec' = [codec EXCEPT !.intact = FALSE, !.flaws = @ \cup {flaw},
                                      !.wire = Flawed(flaw)]
       /\ UNCHANGED <<root_keys, seed_keys, stored_max, tasks, clock, rpc>>

\* DPAPINGBlob.unpack
BlobUnpack ==
    /\ codec.stage = "blob_wire"
    /\ codec' = [codec EXCEPT !.stage = "blob_out"] @@
                [out |-> DPAPINGBlob_unpack(codec.wire), calls |-> <<>>]
    /\ UNCHANGED <<root_keys, seed_keys, stored_max, tasks, clock, rpc>>

\* ncrypt_unprotect_secret of the packed blob, with the cache as it is
BlobUnprotect ==
    /\ codec.stage = "blob_wire"
    /\ \E server \in Servers :
         \E o \in ncrypt_unprotect_secret(root_keys, seed_keys, codec.wire, server) :
            /\ seed_keys' = o.seed_keys
            /\ codec' = [codec EXCEPT !.stage = "unprotect_out"] @@
                        [out |-> o.result, calls |-> o.calls]
    /\ UNCHANGED <<root_keys, stored_max, tasks, clock, rpc>>

NextCodec ==
    \/ KeyIdentifierPack \/ KeyIdentifierCorrupt \/ KeyIdentifierUnpack
    \/ BlobPack \/ BlobCorrupt \/ BlobUnpack \/ BlobUnprotect

\* Every value of the input sets, packed and unpacked.
SpecCodec == InitCodec /\ [][NextCodec]_vars

-----------------------------------------------------------------------------
(* The current-time index at the resolution of the clock.  current_time is  *)
(* a count of 100 ns units, about 1.3 * 10^17, and base is 360000000000 =   *)
(* 87890625 * 2^12.  A time is written here as the record                   *)
(*    [l0, l1, l2, from, d]                                                 *)
(* that stands for l0 * 1024 * base + l1 * 32 * base + l2 * base + c with   *)
(* c = d when from = "start" and c = base - 1 - d when from = "end": the d  *)
(* first and the d last units of an L2 interval.  No number written out     *)
(* exceeds 2^31.                                                            *)

\* How far from the start or the end of an L2 interval the times lie.
MaxOffset == 12

\* The times read: L0 of today (361, 362) and of exponents 7 and 9 as
\* doubles, every corner of the L1 / L2 square, the first and the last
\* units of the interval.
ClockTimes ==
    [l0 : {200, 361, 362, 1000}, l1 : {0, 30, 31}, l2 : {0, 30, 31},
     from : {"start", "end"}, d : 0 .. MaxOffset]

\* Lines 300-302: l0 = int(current_time / (32 * 32 * base)) and so on.  The
\* operands are ints, so / is the quotient of the two integers rounded to
\* the nearest double (53 significant bits, ties to even), and int()
\* truncates it.  For a quotient q + rem / den with q of exponent e, that is
\* q + 1 when den - rem <= den * 2^(e - 53), and q otherwise.  den is
\* 87890625 * 2^k.
TimeIndexFloat(now) ==
    LET IntOfTrueDiv(q, gap, k) ==
            LET e == CHOOSE x \in -1 .. 29 :
                        \/ x = -1 /\ q = 0
                        \/ x >= 0 /\ 2^x <= q /\ q < 2^(x + 1)
                s == 53 - e - k
                rounds_up == gap > 0 /\ gap <= 87890625 \div 2^(IF s > 30 THEN 30 ELSE s)
            IN IF rounds_up THEN q + 1 ELSE q
        \* den - rem where it is small, 0 where it is at least base
        last == IF now.from = "end" THEN now.d + 1 ELSE 0
    IN [l0 |-> IntOfTrueDiv(now.l0, IF now.l1 = 31 /\ now.l2 = 31 THEN last ELSE 0, 22),
        l1 |-> IntOfTrueDiv(now.l1, IF now.l2 = 31 THEN last ELSE 0, 17),
        l2 |-> IntOfTrueDiv(now.l2, last, 12)]

InitClock ==
    /\ root_keys = EmptyDict
    /\ seed_keys = EmptyDict
    /\ stored_max = [t \in Targets |-> None]
    /\ tasks = [i \in TaskIds |->
                [pc |-> "idle", blob |-> None, server |-> NoneStr, rk |-> None,
                 existing |-> None, result |-> None, rpcs |-> 0]]
    /\ codec = [stage |-> "none"]
    /\ clock \in {[stage |-> "now", now |-> t] : t \in ClockTimes}
    /\ rpc = [pc |-> "none"]

\* _get_protection_gke_from_cache, lines 298-302
ClockIndex ==
    /\ clock.stage = "now"
    /\ clock' = [stage |-> "index", now |-> clock.now,
                 index |-> TimeIndexFloat(clock.now)]
    /\ UNCHANGED <<root_keys, seed_keys, stored_max, tasks, codec, rpc>>

\* Every time of ClockTimes, read and indexed.
SpecClock == InitClock /\ [][ClockIndex]_vars

-----------------------------------------------------------------------------
(* One get_key call (_sync_get_key, _async_get_key) step by step.  rpc.log  *)
(* is what has happened on the wire, in order: connections opened and       *)
(* closed, binds with the results of the acknowledgement, requests with     *)
(* what came back.  The async form has the same steps, each awaited.        *)

\* A _process_bind_result satisfied with any accepted context.
process_bind_result_any(requested_contexts, results, desired_context) ==
    IF \E idx \in DOMAIN results : results[idx] = "ACCEPTANCE"
    THEN Ok(None) ELSE Err("ValueError", "bind")

\* _process_bind_result: the context ids of the accepted results must hold
\* the desired one.
process_bind_result(requested_contexts, results, desired_context) ==
    LET accepted_ids == { requested_contexts[idx].context_id :
                            idx \in {i \in DOMAIN results : results[i] = "ACCEPTANCE"} }
    IN IF desired_context \notin accepted_ids
       THEN Err("ValueError", "bind") ELSE Ok(None)

\* _process_ept_map_result: the port of the first TCP floor of the towers
process_ept_map_result(response) ==
    IF response.status # 0 THEN Err("ValueError", "ept_map")
    ELSE LET floors == { i \in DOMAIN response.floors : response.floors[i].kind = "TCPFloor" }
         IN IF floors = {} THEN Err("ValueError", "ept_map")
            ELSE Ok(response.floors[CHOOSE i \in floors : \A j \in floors : i <= j].port)

\* The call as it is entered, in either form, with or without credentials.
InitRpc ==
    /\ root_keys = EmptyDict
    /\ seed_keys = EmptyDict
    /\ stored_max = [t \in Targets |-> None]
    /\ tasks = [i \in TaskIds |->
                [pc |-> "idle", blob |-> None, server |-> NoneStr, rk |-> None,
                 existing |-> None, result |-> None, rpcs |-> 0]]
    /\ codec = [stage |-> "none"]
    /\ clock = [stage |-> "none"]
    /\ rpc \in { [pc |-> "start", form |-> f, username |-> u, l0 |-> l0, log |-> <<>>,
                  port |-> 0, result |-> None] :
                   f \in {"sync", "async"}, u \in {NoneStr, "user"}, l0 \in {-1, 0} }

\* create_rpc_connection(server): the endpoint mapper, port 135, no
\* credentials (lines 136, 189); it may fail to connect.
RpcConnectEpm ==
    /\ rpc.pc = "start"
    /\ \/ rpc' = [rpc EXCEPT !.pc = "epm_bind",
                             !.log = Append(@, [ev |-> "connect", conn |-> 1, port |-> 135,
                                                username |-> NoneStr])]
       \/ rpc' = [rpc EXCEPT !.pc = "done", !.result = Err("TransportError", "connect")]
    /\ UNCHANGED <<root_keys, seed_keys, stored_max, tasks, codec, clock>>

\* rpc.bind(contexts=_EPM_CONTEXTS) and _process_bind_result (lines 138-140,
\* 190-192); leaving the with block closes the connection.
RpcBindEpm ==
    /\ rpc.pc = "epm_bind"
    /\ \E r \in {"ACCEPTANCE", "PROVIDER_REJECTION"} :
         LET contexts == <<[context_id |-> 0, abstract_syntax |-> "EPM"]>>
             checked  == process_bind_result(contexts, <<r>>, contexts[1].context_id)
             bound    == Append(rpc.log, [ev |-> "bind", conn |-> 1, syntax |-> "EPM",
                                          results |-> <<r>>])
         IN rpc' = IF IsOk(checked)
                   THEN [rpc EXCEPT !.pc = "ept_map", !.log = bound]
                   ELSE [rpc EXCEPT !.pc = "done", !.result = checked,
                                    !.log = Append(bound, [ev |-> "close", conn |-> 1])]
    /\ UNCHANGED <<root_keys, seed_keys, stored_max, tasks, codec, clock>>

\* rpc.request(context_id, ept_map.opnum, ...) and _process_ept_map_result
\* (lines 142-144, 194-196), then the end of the with block.
RpcEptMap ==
    /\ rpc.pc = "ept_map"
    /\ \E status \in {0, 382312662},
          floors \in { <<>>, <<[kind |-> "UUIDFloor", port |-> 0]>>,
                       <<[kind |-> "UUIDFloor", port |-> 0],
                         [kind |-> "TCPFloor", port |-> 49664],
                         [kind |-> "IPFloor", port |-> 0]>> } :
         LET response == [status |-> status, floors |-> floors]
             mapped   == process_ept_map_result(response)
             closed   == Append(Append(rpc.log,
                                   [ev |-> "request", conn |-> 1, op |-> "ept_map",
                                    context_id |-> 0, response |-> response]),
                                [ev |-> "close", conn |-> 1])
         IN rpc' = IF IsOk(mapped)
                   THEN [rpc EXCEPT !.pc = "isd_connect", !.port = mapped.value,
                                    !.log = closed]
                   ELSE [rpc EXCEPT !.pc = "done", !.result = mapped, !.log = closed]
    /\ UNCHANGED <<root_keys, seed_keys, stored_max, tasks, codec, clock>>

\* create_rpc_connection(server, isd_key_port, username=..., password=...,
\* auth_protocol=...) (lines 146-152, 198-204)
RpcConnectIsdKey ==
    /\ rpc.pc = "isd_connect"
    /\ \/ rpc' = [rpc EXCEPT !.pc = "isd_bind",
                             !.log = Append(@, [ev |-> "connect", conn |-> 2,
                                                port |-> rpc.port, auth |-> TRUE,
                                                username |-> rpc.username])]
       \/ rpc' = [rpc EXCEPT !.pc = "done", !.result = Err("TransportError", "connect")]
    /\ UNCHANGED <<root_keys, seed_keys, stored_max, tasks, codec, clock>>

\* rpc.bind(contexts=_ISD_KEY_CONTEXTS) and _process_bind_result (lines
\* 154-156, 205-207): context 0 is ISD_KEY over NDR64, context 1 the bind
\* time feature negotiation.
RpcBindIsdKey ==
    /\ rpc.pc = "isd_bind"
    /\ \E r0, r1 \in {"ACCEPTANCE", "PROVIDER_REJECTION", "NEGOTIATE_ACK"} :
         LET contexts == <<[context_id |-> 0, abstract_syntax |-> "ISD_KEY"],
                           [context_id |-> 1, abstract_syntax |-> "ISD_KEY"]>>
             checked  == process_bind_result(contexts, <<r0, r1>>, contexts[1].context_id)
             bound    == Append(rpc.log, [ev |-> "bind", conn |-> 2, syntax |-> "ISD_KEY",
                                          results |-> <<r0, r1>>])
         IN rpc' = IF IsOk(checked)
                   THEN [rpc EXCEPT !.pc = "get_key", !.log = bound]
                   ELSE [rpc EXCEPT !.pc = "done", !.result = checked,
                                    !.log = Append(bound, [ev |-> "close", conn |-> 2])]
    /\ UNCHANGED <<root_keys, seed_keys, stored_max, tasks, codec, clock>>

\* rpc.request(context_id, get_key.opnum, get_key.pack(), verification
\* trailer) and _process_get_key_result (lines 158-165, 209-216)
RpcGetKey ==
    /\ rpc.pc = "get_key"
    /\ \E k \in sync_get_key("dc-1", TargetSd("S-1-5-21-1"), "rk-1", rpc.l0, -1, -1) :
         rpc' = [rpc EXCEPT !.pc = "done", !.result = k,
                            !.log = Append(Append(@,
                                       [ev |-> "request", conn |-> 2, op |-> "GetKey",
                                        context_id |-> 0, l0 |-> rpc.l0]),
                                       [ev |-> "close", conn |-> 2])]
    /\ UNCHANGED <<root_keys, seed_keys, stored_max, tasks, codec, clock>>

NextRpc ==
    \/ RpcConnectEpm \/ RpcBindEpm \/ RpcEptMap
    \/ RpcConnectIsdKey \/ RpcBindIsdKey \/ RpcGetKey

\* One get_key call, with every answer the server may give at each step.
SpecRpc == InitRpc /\ [][NextRpc]_vars

-----------------------------------------------------------------------------
(* Properties *)

\* The envelopes held, slot by slot.
Held(sks) ==
    [t \in Targets \cup CallTargets |-> Slot(sks, t[1], TargetSd(t[2]), t[3])]

\* C1: with one KeyCache that holds a loaded root key used for both calls,
\* and protect given that root key id, protect returns a blob and unprotect
\* of that blob returns exactly the data, for every data and SID.
RoundTrip ==
    \A inp \in ProtectInputs, data \in Plaintexts, server \in Servers :
        inp[1] \in DOMAIN root_keys =>
            \A o1 \in ncrypt_protect_secret(root_keys, seed_keys, data, inp[2], inp[1], server, "domain.test", inp[3], Random) :
                /\ IsOk(o1.result)
                /\ \A o2 \in ncrypt_unprotect_secret(root_keys, o1.seed_keys, o1.result.value, server) :
                        o2.result = Ok(data)

\* C2: after any sequence of _store_key calls on one slot, the slot holds the
\* envelope whose (l1, l2) is the lexicographic maximum of all that were
\* stored there, and the first one stored with that pair: an entry is
\* replaced only by a strictly greater pair.
StoredIsLexMax ==
    \A t \in Targets :
        Slot(seed_keys, t[1], TargetSd(t[2]), t[3]) = stored_max[t]

\* A slot that holds an L1 seed stored at the top L1, one that holds an L2
\* seed stored at the lowest l2, and a third one still empty.
StoredIsLexMaxWitness ==
    \E t \in StoreTargets, u \in StoreTargets :
        /\ stored_max[t] # None /\ stored_max[u] # None
        /\ stored_max[t].l1 = TopIndex /\ stored_max[t].flags = 0
        /\ stored_max[u].l2 = 0 /\ stored_max[u].flags = 2
        /\ \E v \in StoreTargets : stored_max[v] = None

\* C3: whenever _get_key(target_sd, root_key_id, L0, L1, L2) returns an
\* envelope, that envelope has l0 = L0 and dominates (L1, L2).
GetKeyReturnsDominating ==
    \A t \in Targets, p \in IndexPairs :
        LET got == KeyCache_get_key(root_keys, seed_keys, TargetSd(t[2]),
                                    t[1], t[3], p[1], p[2])
        IN got.ret # None =>
               got.ret.l0 = t[3] /\ Dominates(got.ret, p[1], p[2])

\* C4: when no seed in the slot dominates the request and a RootKey is
\* registered for root_key_id, _get_key returns a freshly synthesised envelope
\* (flags 2, l0 = L0, l1 = l2 = 31, l1_key populated, l2_key empty) and the
\* slot holds that same envelope afterwards.
GetKeySynthesises ==
    \A t \in Targets, p \in IndexPairs :
        LET seed == Slot(seed_keys, t[1], TargetSd(t[2]), t[3])
            got  == KeyCache_get_key(root_keys, seed_keys, TargetSd(t[2]),
                                     t[1], t[3], p[1], p[2])
        IN (/\ seed = None \/ ~Dominates(seed, p[1], p[2])
            /\ t[1] \in DOMAIN root_keys) =>
               /\ got.ret # None
               /\ got.ret.flags = 2 /\ got.ret.l0 = t[3]
               /\ got.ret.l1 = TopIndex /\ got.ret.l2 = TopIndex
               /\ got.ret.l1_key # EmptyBytes /\ got.ret.l2_key = EmptyBytes
               /\ Slot(got.seed_keys, t[1], TargetSd(t[2]), t[3]) = got.ret

\* The positions of the calls of one kind in the calls a call made.
CallsOf(calls, kind) == {i \in DOMAIN calls : calls[i].call = kind}

\* The slot an unpacked blob names, as <<root_key_id, target_sd, l0>>.
BlobSlot(blob) ==
    <<blob.key_identifier.root_key_identifier, blob.security_descriptor,
      blob.key_identifier.l0>>

\* The envelope held in slot k = <<root_key_id, target_sd, l0>>.
SlotAt(sks, k) == Slot(sks, k[1], k[2], k[3])

\* What the cache probe of unprotect returns for an unpacked blob.
Probe(rks, sks, blob) ==
    KeyCache_get_key(rks, sks, blob.security_descriptor,
                     blob.key_identifier.root_key_identifier,
                     blob.key_identifier.l0, blob.key_identifier.l1,
                     blob.key_identifier.l2).ret

\* C5: in every state of a KeyCache driven by the four entry points, no slot
\* holds an envelope with flags bit 0 (is_public_key) set.
NoPublicKeyCached ==
    \A id \in DOMAIN seed_keys :
        \A sd \in DOMAIN seed_keys[id] :
            \A l0 \in DOMAIN seed_keys[id][sd] :
                (seed_keys[id][sd][l0].flags % 2) = 0

\* A cache that holds a seed, from which a protect call gets a public-key
\* envelope from get_key, returns a blob made with it, and leaves the cache
\* as it was.
NoPublicKeyCachedWitness ==
    /\ \E t \in CallTargets : SlotAt(seed_keys, <<t[1], TargetSd(t[2]), t[3]>>) # None
    /\ \E sid \in SIDs :
         \E o \in ncrypt_protect_secret(root_keys, seed_keys, "hello", sid, NoneStr, "dc-1", "domain.test", 0, Random) :
            /\ o.rk # None /\ (o.rk.flags % 2) = 1
            /\ IsOk(o.result)
            /\ o.seed_keys = seed_keys

\* C6 as stated: after unprotect of a blob whose key_identifier.is_public_key
\* is set, the blob's slot holds nothing that it did not hold before, whatever
\* envelope get_key returned and whether or not a root key is loaded.
PublicBlobNeverAddsEntry ==
    \A b \in PublicBlobs, server \in Servers :
        LET k == BlobSlot(DPAPINGBlob_unpack(b).value)
        IN \A o \in ncrypt_unprotect_secret(root_keys, seed_keys, b, server) :
               SlotAt(o.seed_keys, k) = SlotAt(seed_keys, k)

\* C6, amended: after unprotect of a blob whose key_identifier.is_public_key
\* is set, the blob's slot holds nothing that it did not hold before, when no
\* root key is loaded for the blob's root key id and get_key returned an
\* envelope with is_public_key set, or raised.
PublicEnvelopeNeverAddsEntry ==
    \A b \in PublicBlobs, server \in Servers :
        LET k == BlobSlot(DPAPINGBlob_unpack(b).value)
        IN \A o \in ncrypt_unprotect_secret(root_keys, seed_keys, b, server) :
               (/\ k[1] \notin DOMAIN root_keys
                /\ o.rk = None \/ is_public_key(o.rk)) =>
                   SlotAt(o.seed_keys, k) = SlotAt(seed_keys, k)

\* A cache with a seed in one slot and another slot empty, no root key
\* loaded; unprotect of a public-key blob of the empty slot gets a public-key
\* envelope from get_key, and the slot is empty afterwards.
PublicEnvelopeNeverAddsEntryWitness ==
    /\ \E t \in CallTargets : SlotAt(seed_keys, <<t[1], TargetSd(t[2]), t[3]>>) # None
    /\ \E b \in PublicBlobs :
         LET k == BlobSlot(DPAPINGBlob_unpack(b).value)
         IN /\ k[1] \notin DOMAIN root_keys
            /\ SlotAt(seed_keys, k) = None
            /\ \E o \in ncrypt_unprotect_secret(root_keys, seed_keys, b, "dc-1") :
                  /\ o.rk # None /\ is_public_key(o.rk)
                  /\ SlotAt(o.seed_keys, k) = None

\* The order of the calls of one unprotect call (calls made, rk the envelope
\* it came to hold) for an unpacked blob, given whether the probe hit and the
\* server it was given.  On a hit: no lookup_dc and no get_key.  On a miss:
\* one lookup_dc iff no server was given, get_key with the blob's security
\* descriptor, root key id, L0, L1 and L2, after the lookup_dc, and the store
\* of an envelope that is not a public key after get_key and before the
\* decryption.
CallsInOrder(calls, rk, blob, hit, server) ==
    LET ki == blob.key_identifier
        lk == CallsOf(calls, "lookup_dc")
        gk == CallsOf(calls, "get_key")
        st == CallsOf(calls, "cache_store")
        de == CallsOf(calls, "decrypt_blob")
    IN IF hit THEN lk = {} /\ gk = {}
       ELSE /\ Cardinality(lk) = (IF server = NoneStr THEN 1 ELSE 0)
            /\ \A g \in gk :
                 /\ calls[g].target_sd = blob.security_descriptor
                 /\ calls[g].root_key_id = ki.root_key_identifier
                 /\ calls[g].l0 = ki.l0 /\ calls[g].l1 = ki.l1 /\ calls[g].l2 = ki.l2
                 /\ \A l \in lk : l < g
            /\ (rk # None /\ ~is_public_key(rk)) => st # {}
            /\ \A x \in st :
                 /\ calls[x].key = rk
                 /\ \E g \in gk : g < x
                 /\ \E d \in de : x < d

\* C7 as stated: unprotect on a cache hit calls neither lookup_dc nor get_key;
\* on a miss it calls get_key exactly once, with the blob's security
\* descriptor, root key id, L0, L1 and L2, preceded by exactly one lookup_dc
\* iff no server was supplied, and stores the result after get_key returns
\* and before the decryption.
UnprotectCallsGetKeyOnce ==
    \A b \in SlotBlobs \cup PublicBlobs, server \in Servers :
        LET blob == DPAPINGBlob_unpack(b).value
            hit  == Probe(root_keys, seed_keys, blob) # None
        IN \A o \in ncrypt_unprotect_secret(root_keys, seed_keys, b, server) :
               /\ CallsInOrder(o.calls, o.rk, blob, hit, server)
               /\ ~hit => Cardinality(CallsOf(o.calls, "get_key")) = 1

\* C7, amended: as C7, but on a miss get_key is called exactly once unless
\* lookup_dc raised, and then not at all.
UnprotectCallOrder ==
    \A b \in SlotBlobs \cup PublicBlobs, server \in Servers :
        LET blob == DPAPINGBlob_unpack(b).value
            hit  == Probe(root_keys, seed_keys, blob) # None
        IN \A o \in ncrypt_unprotect_secret(root_keys, seed_keys, b, server) :
               /\ CallsInOrder(o.calls, o.rk, blob, hit, server)
               /\ ~hit => Cardinality(CallsOf(o.calls, "get_key")) =
                             (IF o.result = Err("TransportError", "lookup_dc")
                              THEN 0 ELSE 1)

\* A cache in which one blob's probe hits and another's misses; the miss,
\* given no server, makes the calls lookup_dc, get_key, store, decrypt.
UnprotectCallOrderWitness ==
    /\ \E b \in SlotBlobs :
         Probe(root_keys, seed_keys, DPAPINGBlob_unpack(b).value) # None
    /\ \E b \in SlotBlobs :
         /\ Probe(root_keys, seed_keys, DPAPINGBlob_unpack(b).value) = None
         /\ \E o \in ncrypt_unprotect_secret(root_keys, seed_keys, b, NoneStr) :
               /\ Len(o.calls) = 5
               /\ o.calls[2].call = "lookup_dc" /\ o.calls[3].call = "get_key"
               /\ o.calls[4].call = "cache_store"
               /\ o.calls[5].call = "decrypt_blob"

\* C8: once load_key has registered a root key, unprotect of any blob of that
\* root key id makes no lookup_dc and no get_key call, for every (L0, L1, L2)
\* in the blob and whatever the seed cache held before.
LoadedKeyNoRpc ==
    \A b \in SlotBlobs \cup PublicBlobs, server \in Servers :
        LET blob == DPAPINGBlob_unpack(b).value
        IN blob.key_identifier.root_key_identifier \in DOMAIN root_keys =>
               \A o \in ncrypt_unprotect_secret(root_keys, seed_keys, b, server) :
                   /\ CallsOf(o.calls, "lookup_dc") = {}
                   /\ CallsOf(o.calls, "get_key") = {}

\* A root key is loaded, the slot of a blob of that root key id holds a seed
\* from before that does not dominate the blob's (L1, L2), and unprotect of
\* the blob looks in the cache and goes on to decrypt.
LoadedKeyNoRpcWitness ==
    \E b \in SlotBlobs :
        LET blob == DPAPINGBlob_unpack(b).value
            seed == SlotAt(seed_keys, BlobSlot(blob))
        IN /\ blob.key_identifier.root_key_identifier \in DOMAIN root_keys
           /\ seed # None
           /\ ~Dominates(seed, blob.key_identifier.l1, blob.key_identifier.l2)
           /\ \E o \in ncrypt_unprotect_secret(root_keys, seed_keys, b, NoneStr) :
                 /\ o.calls[1].call = "cache_get"
                 /\ CallsOf(o.calls, "decrypt_blob") # {}

\* No root key is loaded and no slot holds an envelope.
EmptyCache ==
    /\ root_keys = EmptyDict
    /\ \A t \in CallTargets : SlotAt(seed_keys, <<t[1], TargetSd(t[2]), t[3]>>) = None

\* C9 as stated: from an empty shared cache with no root key loaded, protect
\* followed by unprotect of the blob it produced makes exactly one get_key
\* call in total: the envelope protect fetched is held in the slot the
\* unprotect probe reads, and the probe hits.
ProtectThenUnprotectOneGetKey ==
    EmptyCache =>
        \A inp \in ProtectInputs, server \in Servers :
            \A o1 \in ncrypt_protect_secret(root_keys, seed_keys, "hello", inp[2], inp[1], server, "domain.test", inp[3], Random) :
                IsOk(o1.result) =>
                    LET blob == DPAPINGBlob_unpack(o1.result.value).value
                    IN /\ SlotAt(o1.seed_keys, BlobSlot(blob)) = o1.rk
                       /\ Probe(root_keys, o1.seed_keys, blob) # None
                       /\ \A o2 \in ncrypt_unprotect_secret(root_keys, o1.seed_keys, o1.result.value, server) :
                              Cardinality(CallsOf(o1.calls, "get_key"))
                                + Cardinality(CallsOf(o2.calls, "get_key")) = 1

\* C9, amended: as C9, when the envelope get_key returned to protect is not a
\* public-key envelope.
SeedProtectThenUnprotectOneGetKey ==
    EmptyCache =>
        \A inp \in ProtectInputs, server \in Servers :
            \A o1 \in ncrypt_protect_secret(root_keys, seed_keys, "hello", inp[2], inp[1], server, "domain.test", inp[3], Random) :
                (IsOk(o1.result) /\ ~is_public_key(o1.rk)) =>
                    LET blob == DPAPINGBlob_unpack(o1.result.value).value
                    IN /\ SlotAt(o1.seed_keys, BlobSlot(blob)) = o1.rk
                       /\ Probe(root_keys, o1.seed_keys, blob) # None
                       /\ \A o2 \in ncrypt_unprotect_secret(root_keys, o1.seed_keys, o1.result.value, server) :
                              /\ o2.result = Ok("hello")
                              /\ Cardinality(CallsOf(o1.calls, "get_key"))
                                   + Cardinality(CallsOf(o2.calls, "get_key")) = 1

\* The cache after one protect call from the empty cache: no root key, one
\* slot holding the L2 seed envelope protect fetched, and unprotect of the
\* blob protect made with it returns the data without a get_key call.
SeedProtectThenUnprotectOneGetKeyWitness ==
    /\ root_keys = EmptyDict
    /\ \E t \in CallTargets :
         LET e == SlotAt(seed_keys, <<t[1], TargetSd(t[2]), t[3]>>)
         IN /\ e # None /\ e.flags = 2
            /\ \A u \in CallTargets \ {t} :
                  SlotAt(seed_keys, <<u[1], TargetSd(u[2]), u[3]>>) = None
            /\ \E o2 \in ncrypt_unprotect_secret(root_keys, seed_keys, BlobFor(t, <<e.l1, e.l2>>, 2, "hello"), NoneStr) :
                  /\ o2.result = Ok("hello")
                  /\ CallsOf(o2.calls, "get_key") = {}

\* The call failed in the CEK unwrap or in the content decryption.
DecryptionFailed(result) ==
    /\ ~IsOk(result)
    /\ result.type = "DecryptionFailed"
    /\ result.at \in {"cek_decrypt", "content_decrypt"}

\* C10 as stated: if the CEK unwrap or the content decryption fails during
\* unprotect, the call fails and the cache holds exactly what it held before
\* the call, also when the key was obtained by get_key during that call.
DecryptFailureLeavesCacheAsBefore ==
    \A b \in SlotBlobs \cup PublicBlobs \cup CorruptBlobs, server \in Servers :
        \A o \in ncrypt_unprotect_secret(root_keys, seed_keys, b, server) :
            DecryptionFailed(o.result) => Held(o.seed_keys) = Held(seed_keys)

\* C10, amended: unprotect of a blob with a corrupted ciphertext fails; if the
\* CEK unwrap or the content decryption fails, the cache holds exactly what it
\* held before the call when the blob's slot already held a seed that
\* dominates the blob's (L1, L2), and otherwise exactly what the lookup and
\* the store of the envelope made before the decryption put there.
DecryptFailureAddsNothing ==
    \A b \in SlotBlobs \cup PublicBlobs \cup CorruptBlobs, server \in Servers :
        LET blob  == DPAPINGBlob_unpack(b).value
            ki    == blob.key_identifier
            seed  == SlotAt(seed_keys, BlobSlot(blob))
            probe == KeyCache_get_key(root_keys, seed_keys, blob.security_descriptor,
                                      ki.root_key_identifier, ki.l0, ki.l1, ki.l2)
        IN \A o \in ncrypt_unprotect_secret(root_keys, seed_keys, b, server) :
               /\ b \in CorruptBlobs => ~IsOk(o.result)
               /\ DecryptionFailed(o.result) =>
                    /\ (seed # None /\ Dominates(seed, ki.l1, ki.l2)) =>
                           Held(o.seed_keys) = Held(seed_keys)
                    /\ Held(o.seed_keys) =
                           Held(IF is_public_key(o.rk) THEN probe.seed_keys
                                ELSE KeyCache_store_key(probe.seed_keys,
                                         blob.security_descriptor, o.rk))

\* A cache whose slot holds a seed that dominates a corrupted blob, no root
\* key loaded for it: unprotect fails in the content decryption and the cache
\* is as before.
DecryptFailureAddsNothingWitness ==
    \E b \in CorruptBlobs :
        LET blob == DPAPINGBlob_unpack(b).value
            seed == SlotAt(seed_keys, BlobSlot(blob))
        IN /\ seed # None
           /\ Dominates(seed, blob.key_identifier.l1, blob.key_identifier.l2)
           /\ blob.key_identifier.root_key_identifier \notin DOMAIN root_keys
           /\ \E o \in ncrypt_unprotect_secret(root_keys, seed_keys, b, NoneStr) :
                 /\ o.result = Err("DecryptionFailed", "content_decrypt")
                 /\ o.seed_keys = seed_keys


\* C11: when lookup_dc or get_key raises, or the task is cancelled while it
\* awaits one of them, the protect / unprotect call (blocking or async) ends
\* with exactly the error that call raised, it has stored nothing, and every
\* slot of the cache holds the envelope it held before the call (or none, as
\* before).
CollaboratorFailureLeavesCache ==
    LET Raised(c) ==
            IF c.call = "lookup_dc" THEN async_lookup_dc(c.domain_name)
            ELSE async_get_key(c.server, c.target_sd, c.root_key_id,
                               c.l0, c.l1, c.l2)
        Clean(o) ==
            (~IsOk(o.result) /\ o.result.at \in {"lookup_dc", "get_key"}) =>
                /\ Held(o.seed_keys) = Held(seed_keys)
                /\ CallsOf(o.calls, "cache_store") = {}
                /\ o.calls[Len(o.calls)].call = o.result.at
                /\ o.result \in Raised(o.calls[Len(o.calls)])
        Blocking(o) == o.result.kind = "error" => o.result.type # "CancelledError"
    IN /\ \A b \in SlotBlobs \cup PublicBlobs, server \in Servers :
            /\ \A o \in ncrypt_unprotect_secret(root_keys, seed_keys, b, server) :
                   Clean(o) /\ Blocking(o)
            /\ \A o \in async_ncrypt_unprotect_secret(root_keys, seed_keys, b, server) :
                   Clean(o)
       /\ \A inp \in ProtectInputs, server \in Servers :
            /\ \A o \in ncrypt_protect_secret(root_keys, seed_keys, "hello", inp[2], inp[1], server, "domain.test", inp[3], Random) :
                   Clean(o) /\ Blocking(o)
            /\ \A o \in async_ncrypt_protect_secret(root_keys, seed_keys, "hello", inp[2], inp[1], server, "domain.test", inp[3], Random) :
                   Clean(o)

\* A cache that holds a seed in one slot; an async unprotect of a blob of
\* another slot misses and, given no server, ends in one run with lookup_dc's
\* transport error and in another with the CancelledError of a cancellation
\* during get_key; a blocking protect ends with get_key's transport error.
CollaboratorFailureLeavesCacheWitness ==
    /\ \E t \in CallTargets : SlotAt(seed_keys, <<t[1], TargetSd(t[2]), t[3]>>) # None
    /\ \E b \in SlotBlobs :
         /\ Probe(root_keys, seed_keys, DPAPINGBlob_unpack(b).value) = None
         /\ \E o1, o2 \in async_ncrypt_unprotect_secret(root_keys, seed_keys, b, NoneStr) :
               /\ o1.result = Err("TransportError", "lookup_dc") /\ Len(o1.calls) = 2
               /\ o2.result = Err("CancelledError", "get_key") /\ Len(o2.calls) = 3
               /\ Held(o2.seed_keys) = Held(seed_keys)
    /\ \E sid \in SIDs :
         \E o \in ncrypt_protect_secret(root_keys, seed_keys, "hello", sid, NoneStr, "dc-1", "domain.test", 0, Random) :
            o.result = Err("TransportError", "get_key")


\* C12 as stated: when two concurrent unprotect calls that share one
\* initially empty KeyCache, for blobs of the same root key id, SD and L0 but
\* different L2, have both ended, both have succeeded and at most one get_key
\* call was issued between them (read in the claim's favour: in the runs in
\* which neither lookup_dc nor get_key raised and neither call was cancelled).
ConcurrentUnprotectOneRpc ==
    (/\ \A i \in TaskIds :
          /\ tasks[i].pc = "done"
          /\ tasks[i].result.kind = "error" =>
                tasks[i].result.at \notin {"lookup_dc", "get_key"}
     /\ tasks["A"].blob.key_identifier.l2 # tasks["B"].blob.key_identifier.l2) =>
        /\ \A i \in TaskIds : IsOk(tasks[i].result)
        /\ tasks["A"].rpcs + tasks["B"].rpcs <= 1

\* C12, amended: of two concurrent unprotect calls that share one initially
\* empty KeyCache, for blobs of the same root key id, SD and L0, each issues
\* at most one get_key call (so at most two are issued for the slot, none
\* coalesced), a call whose probe hit issues none and succeeds, and a call
\* that get_key answered with a seed envelope dominating its blob's (L1, L2)
\* succeeds.
ConcurrentUnprotectOneRpcEach ==
    \A i \in TaskIds :
        LET t == tasks[i]
        IN /\ t.rpcs <= 1
           /\ (t.pc = "done" /\ t.rk # None /\ t.rpcs = 0) => t.result = Ok("hello")
           /\ (/\ t.pc = "done" /\ t.rk # None /\ ~is_public_key(t.rk)
               /\ Dominates(t.rk, t.blob.key_identifier.l1, t.blob.key_identifier.l2)) =>
                  t.result = Ok("hello")

\* Both calls have ended and succeeded, for blobs of different L2, each
\* having issued a get_key call of its own, although the envelope either of
\* them stored dominates the other's blob: had one call started after the
\* other ended, its probe would have hit.
ConcurrentUnprotectOneRpcEachWitness ==
    /\ tasks["A"].blob # None /\ tasks["B"].blob # None
    /\ tasks["A"].blob.key_identifier.l2 # tasks["B"].blob.key_identifier.l2
    /\ \A i \in TaskIds :
         /\ tasks[i].pc = "done" /\ tasks[i].result = Ok("hello") /\ tasks[i].rpcs = 1
         /\ \A j \in TaskIds :
              /\ ~is_public_key(tasks[i].rk)
              /\ Dominates(tasks[i].rk, tasks[j].blob.key_identifier.l1,
                           tasks[j].blob.key_identifier.l2)


\* C13: under every interleaving of concurrent callers that share one
\* KeyCache, from one state to the next no slot loses its envelope and the
\* (L1, L2) of the envelope a slot holds never decreases lexicographically.
SlotNeverDecreases ==
    [][\A t \in CallTargets :
          LET k == <<t[1], TargetSd(t[2]), t[3]>>
          IN SlotAt(seed_keys, k) # None =>
                /\ SlotAt(seed_keys', k) # None
                /\ ~LexLess(Pair(SlotAt(seed_keys', k)), Pair(SlotAt(seed_keys, k)))]_vars


\* C14: for every valid KeyIdentifier ki, of any version, flags, L0 / L1 / L2
\* (signed 32-bit, the sentinel -1 among them), root key UUID, key_info,
\* domain and forest names, KeyIdentifier.unpack(KeyIdentifier.pack(ki))
\* returns a KeyIdentifier equal to ki field for field.
KeyIdentifierRoundTrip ==
    (codec.stage = "ki_out" /\ codec.intact) => codec.out = Ok(codec.input)

\* C15: for every valid DPAPINGBlob blob, with the SID its security
\* descriptor is for, DPAPINGBlob.unpack(blob.pack(sid, blob_in_envelope))
\* equals blob in all eight fields, for blob_in_envelope true and false.
BlobRoundTrip ==
    (codec.stage = "blob_out" /\ codec.intact) => codec.out = Ok(codec.input.blob)


\* C16: decoding is independent of the content-placement mode.  Whatever
\* DPAPINGBlob.unpack returns for a blob packed in one mode, it returns for
\* the same blob and SID packed in the other mode, enc_content and every
\* other field; and whenever it returns a blob for data whose
\* encryptedContent is absent or empty, that blob's enc_content is exactly
\* the bytes that follow the DER-encoded ContentInfo.
DecodingModeIndependent ==
    codec.stage = "blob_out" =>
       /\ codec.intact =>
             codec.out = DPAPINGBlob_unpack(DPAPINGBlob_pack(
                            codec.input.blob, codec.input.sid, ~codec.blob_in_envelope))
       /\ ( /\ IsOk(codec.out)
            /\ codec.wire.encrypted_content_info.content \in {None, EmptyBytes} ) =>
             codec.out.value.enc_content = codec.wire.remaining_data

\* A blob with content packed in appended mode and unpacked: no
\* encryptedContent in the envelope, the ciphertext after it.
DecodingModeIndependentWitness ==
    /\ codec.stage = "blob_out" /\ codec.intact /\ ~codec.blob_in_envelope
    /\ codec.wire.encrypted_content_info.content = None
    /\ IsOk(codec.out)
    /\ codec.out.value.enc_content = codec.input.blob.enc_content
    /\ codec.out.value.enc_content # EmptyBytes

\* C17: DPAPINGBlob.unpack fails with a format error (the ValueError the
\* code raises for an invalid data structure) and returns no blob whenever
\* the data is an EnvelopedData whose version is not 2, whose number of
\* recipients is not 1, whose recipient is not a KEKRecipientInfo or is not
\* of version 4, or whose kekid.other is missing or carries an OID other
\* than 1.3.6.1.4.1.311.74.1.
InvalidFormatOnStructure ==
    LET w == codec.wire
    IN ( /\ codec.stage = "blob_out"
         /\ w.content_type = CONTENT_TYPE_ENVELOPED_DATA_OID
         /\ \/ w.version # 2
            \/ Len(w.recipient_infos) # 1
            \/ w.recipient_infos[1].type # "KEKRecipientInfo"
            \/ w.recipient_infos[1].version # 4
            \/ w.recipient_infos[1].kekid.other = None
            \/ w.recipient_infos[1].kekid.other.key_attr_id # MICROSOFT_SOFTWARE_OID ) =>
           /\ ~IsOk(codec.out)
           /\ codec.out.type = "ValueError"
           /\ codec.out.at \in {"format", "KEK Id", "KeyIdentifier.unpack"}

\* An EnvelopedData of version 3 and nothing else wrong, refused; and
\* likewise one whose kekid.other carries another OID.
InvalidFormatOnStructureWitness ==
    /\ codec.stage = "blob_out"
    /\ \/ codec.flaws = {"version"} /\ codec.out = Err("ValueError", "format")
       \/ codec.flaws = {"other_oid"} /\ codec.out = Err("ValueError", "KEK Id")

\* C18: DPAPINGBlob.unpack fails with an Unsupported error, of a kind
\* distinct from the kind of its format errors, when the ContentInfo content
\* type is not enveloped-data or when, in data with nothing else wrong, the
\* protection descriptor type is not "SID".
UnsupportedIsDistinctKind ==
    LET w == codec.wire
        invalid_format ==
            DPAPINGBlob_unpack([w EXCEPT !.content_type = CONTENT_TYPE_ENVELOPED_DATA_OID,
                                         !.version = 3])
    IN ( /\ codec.stage = "blob_out"
         /\ \/ w.content_type # CONTENT_TYPE_ENVELOPED_DATA_OID
            \/ /\ ~UnexpectedFormat(w)
               /\ IsOk(KeyIdentifier_unpack(w.recipient_infos[1].kekid.key_identifier))
               /\ w.recipient_infos[1].kekid.other # None
               /\ w.recipient_infos[1].kekid.other.key_attr_id = MICROSOFT_SOFTWARE_OID
               /\ w.recipient_infos[1].kekid.other.key_attr.type # "SID" ) =>
           /\ ~IsOk(codec.out)
           /\ codec.out.type # invalid_format.type

\* C19: KeyIdentifier.unpack fails with a format error (ValueError) and
\* returns no KeyIdentifier for every input whose bytes 4..8 are not the
\* magic "KDSK", whatever the other bytes and however long the input; and
\* DPAPINGBlob.unpack and ncrypt_unprotect_secret fail on a blob whose
\* KeyIdentifier has another magic, with that error when the envelope
\* around it is as expected, ncrypt_unprotect_secret without a get_key
\* call or any other call out and without touching the cache.
MagicMismatchFails ==
    LET w == codec.wire
    IN /\ ( /\ codec.stage = "ki_out" /\ ~codec.intact
            /\ Slice(w, 4, 8) # KeyIdentifier_magic ) =>
              codec.out = Err("ValueError", "KeyIdentifier.unpack")
       /\ ( /\ codec.stage \in {"blob_out", "unprotect_out"}
            /\ Len(w.recipient_infos) >= 1
            /\ w.recipient_infos[1].kekid.key_identifier.magic # KeyIdentifier_magic ) =>
              /\ ~IsOk(codec.out)
              /\ codec.calls = <<>>
              /\ seed_keys = EmptyDict
              /\ ( /\ w.content_type = CONTENT_TYPE_ENVELOPED_DATA_OID
                   /\ ~UnexpectedFormat(w) ) =>
                     codec.out = Err("ValueError", "KeyIdentifier.unpack")

\* ncrypt_unprotect_secret of a blob with nothing wrong but the magic of
\* its KeyIdentifier, refused before any call.
MagicMismatchFailsWitness ==
    /\ codec.stage = "unprotect_out"
    /\ codec.flaws = {"magic"}
    /\ codec.out = Err("ValueError", "KeyIdentifier.unpack")
    /\ codec.calls = <<>>

\* C20 as stated: on a cache miss with no server supplied, unprotect and
\* protect (blocking and async) fail with a KeyUnavailable error instead of
\* proceeding: no lookup_dc, no get_key.
MissWithoutServerKeyUnavailable ==
    LET Refused(o) ==
            /\ ~IsOk(o.result) /\ o.result.type = "KeyUnavailable"
            /\ CallsOf(o.calls, "lookup_dc") = {} /\ CallsOf(o.calls, "get_key") = {}
    IN /\ \A b \in SlotBlobs \cup PublicBlobs :
            Probe(root_keys, seed_keys, DPAPINGBlob_unpack(b).value) = None =>
               \A o \in ncrypt_unprotect_secret(root_keys, seed_keys, b, NoneStr)
                          \cup async_ncrypt_unprotect_secret(root_keys, seed_keys, b, NoneStr) :
                  Refused(o)
       /\ \A inp \in ProtectInputs :
            get_protection_gke_from_cache(root_keys, seed_keys, inp[1], TargetSd(inp[2]), inp[3]).ret = None =>
               \A o \in ncrypt_protect_secret(root_keys, seed_keys, "hello", inp[2], inp[1], NoneStr, "domain.test", inp[3], Random)
                          \cup async_ncrypt_protect_secret(root_keys, seed_keys, "hello", inp[2], inp[1], NoneStr, "domain.test", inp[3], Random) :
                  Refused(o)

\* C20, amended: on a cache miss with no server supplied, unprotect and
\* protect (blocking and async) do not fail with a KeyUnavailable error:
\* right after the cache probe they call lookup_dc and, when it resolves a
\* domain controller, get_key on that controller; a call that stops at
\* lookup_dc ends with the error lookup_dc raised, and some run goes on to
\* get_key and returns a result.
MissWithoutServerResolvesDc ==
    LET Proceeds(os, n) ==
            /\ \A o \in os :
                 /\ Len(o.calls) > n
                 /\ o.calls[n + 1].call = "lookup_dc"
                 /\ ~IsOk(o.result) => o.result.type # "KeyUnavailable"
                 /\ Len(o.calls) = n + 1 =>
                        ~IsOk(o.result) /\ o.result.at = "lookup_dc"
                 /\ Len(o.calls) > n + 1 =>
                        /\ o.calls[n + 2].call = "get_key"
                        /\ o.calls[n + 2].server = "dc-1"
            /\ \E o \in os : IsOk(o.result) /\ CallsOf(o.calls, "get_key") # {}
    IN /\ \A b \in SlotBlobs \cup PublicBlobs :
            Probe(root_keys, seed_keys, DPAPINGBlob_unpack(b).value) = None =>
               /\ Proceeds(ncrypt_unprotect_secret(root_keys, seed_keys, b, NoneStr), 1)
               /\ Proceeds(async_ncrypt_unprotect_secret(root_keys, seed_keys, b, NoneStr), 1)
       /\ \A inp \in ProtectInputs :
            LET cached == get_protection_gke_from_cache(root_keys, seed_keys, inp[1], TargetSd(inp[2]), inp[3])
            IN cached.ret = None =>
                 /\ Proceeds(ncrypt_protect_secret(root_keys, seed_keys, "hello", inp[2], inp[1], NoneStr, "domain.test", inp[3], Random), Len(cached.calls))
                 /\ Proceeds(async_ncrypt_protect_secret(root_keys, seed_keys, "hello", inp[2], inp[1], NoneStr, "domain.test", inp[3], Random), Len(cached.calls))

\* A cache that holds a seed; an unprotect of a blob it cannot serve, given
\* no server, looks the domain controller up, gets the key from it and
\* returns the plaintext, and so does a protect with a root key id the cache
\* misses.
MissWithoutServerResolvesDcWitness ==
    /\ seed_keys # EmptyDict
    /\ \E b \in SlotBlobs :
         /\ Probe(root_keys, seed_keys, DPAPINGBlob_unpack(b).value) = None
         /\ \E o \in ncrypt_unprotect_secret(root_keys, seed_keys, b, NoneStr) :
               /\ o.result = Ok("hello")
               /\ Len(o.calls) >= 3
               /\ o.calls[2].call = "lookup_dc"
               /\ o.calls[3].call = "get_key" /\ o.calls[3].server = "dc-1"
    /\ \E inp \in ProtectInputs :
         /\ inp[1] # NoneStr
         /\ get_protection_gke_from_cache(root_keys, seed_keys, inp[1], TargetSd(inp[2]), inp[3]).ret = None
         /\ \E o \in ncrypt_protect_secret(root_keys, seed_keys, "hello", inp[2], inp[1], NoneStr, "domain.test", inp[3], Random) :
               IsOk(o.result) /\ o.calls[2].call = "lookup_dc"

\* C21: the target security descriptor is a function of the SID alone.  For
\* every SID s, in every state of the cache, the descriptor that
\* ncrypt_protect_secret (blocking or async) probes the cache with, hands to
\* get_key and stores under, and the descriptor DPAPINGBlob.unpack computes
\* for any blob whose protection descriptor is s (a blob some protector
\* made, of either key kind and any L1 / L2, or the blob the call itself
\* returns), are the same value: owner = group = S-1-5-18,
\* DACL = [ACE(s, 0x3), ACE(S-1-1-0, 0x2)].
TargetSdFunctionOfSid ==
    \A s \in SIDs :
       LET expected == sd_to_bytes("S-1-5-18", "S-1-5-18",
                           <<ace_to_bytes(s, 3), ace_to_bytes("S-1-1-0", 2)>>)
           Uses(o) ==
               /\ \A i \in DOMAIN o.calls :
                     o.calls[i].call \in {"cache_get", "get_key", "cache_store"} =>
                         o.calls[i].target_sd = expected
               /\ IsOk(o.result) =>
                     DPAPINGBlob_unpack(o.result.value).value.security_descriptor = expected
       IN /\ \A inp \in ProtectInputs, server \in Servers :
               inp[2] = s =>
                  \A o \in ncrypt_protect_secret(root_keys, seed_keys, "hello", s, inp[1], server, "domain.test", inp[3], Random)
                             \cup async_ncrypt_protect_secret(root_keys, seed_keys, "hello", s, inp[1], server, "domain.test", inp[3], Random) :
                     Uses(o)
          /\ \A b \in SlotBlobs \cup PublicBlobs :
               b.recipient_infos[1].kekid.other.key_attr.value = s =>
                  DPAPINGBlob_unpack(b).value.security_descriptor = expected

\* A cache that holds a seed; a protect with a root key id probes it with
\* the descriptor of its SID, misses, asks get_key with the same descriptor
\* and returns a blob that unpacks to that descriptor again.
TargetSdFunctionOfSidWitness ==
    /\ seed_keys # EmptyDict
    /\ \E inp \in ProtectInputs :
         /\ inp[1] # NoneStr
         /\ \E o \in ncrypt_protect_secret(root_keys, seed_keys, "hello", inp[2], inp[1], "dc-1", "domain.test", inp[3], Random) :
              /\ IsOk(o.result)
              /\ Len(o.calls) >= 2
              /\ o.calls[1].call = "cache_get" /\ o.calls[2].call = "get_key"
              /\ o.calls[1].target_sd = o.calls[2].target_sd
              /\ DPAPINGBlob_unpack(o.result.value).value.security_descriptor
                    = o.calls[1].target_sd
              /\ o.calls[1].target_sd.dacl[1] = ace_to_bytes(inp[2], 3)

\* C22: KeyCache.load_key(key, id, ...) is a pure upsert.  In every state of
\* a cache driven by load_key and the four entry points, load_key of any key
\* data under any id, registered already or not, gives a registry that maps
\* id to the RootKey of the arguments and every other id to what it mapped
\* to before; a step that changes the registry changes it in that way and
\* leaves every seed-cache slot as it was; and no step (the cache lookups
\* and stores of protect and unprotect among them) removes a registered
\* RootKey or changes one other than by load_key.
LoadKeyPureUpsert ==
    [][ LET Upsert(before, after, id) ==
                /\ DOMAIN after = DOMAIN before \cup {id}
                /\ \A j \in DOMAIN before \ {id} : after[j] = before[j]
            Loads(rks) ==
                \A id \in RootKeyIds, key \in {"key-A", "key-B"} :
                   LET after == KeyCache_load_key(rks, key, id, 1,
                                    "SP800_108_CTR_HMAC", None, "DH", None, 512, 2048)
                   IN /\ Upsert(rks, after, id)
                      /\ after[id] = load_key_entry(key, 1, "SP800_108_CTR_HMAC", None,
                                                    "DH", None, 512, 2048)
                      /\ after[id].key = key
        IN /\ Loads(root_keys) /\ Loads(root_keys')
           /\ DOMAIN root_keys \subseteq DOMAIN root_keys'
           /\ root_keys' # root_keys =>
                 /\ \E id \in RootKeyIds : Upsert(root_keys, root_keys', id)
                 /\ seed_keys' = seed_keys
           /\ seed_keys' # seed_keys => root_keys' = root_keys ]_vars

\* Both root key ids registered with a seed in the cache: the second
\* load_key kept the first entry.
LoadKeyPureUpsertWitness ==
    /\ DOMAIN root_keys = RootKeyIds
    /\ \A id \in RootKeyIds : root_keys[id].key \in RootKeyData
    /\ \E t \in CallTargets : SlotAt(seed_keys, <<t[1], TargetSd(t[2]), t[3]>>) # None

\* C23: derivation in the protect cache path is monotone.  In every state of
\* the cache and for every root key id, SID and current time,
\* _get_protection_gke_from_cache calls compute_l2_key only with a source
\* envelope (what _get_key returned) that dominates the (L1, L2) of the
\* current time; with a source that does not dominate, nothing is derived:
\* no envelope comes back.
ProtectDerivationMonotone ==
    \A inp \in ProtectInputs :
       inp[1] # NoneStr =>
          LET i      == TimeIndex(inp[3])
              source == KeyCache_get_key(root_keys, seed_keys, TargetSd(inp[2]),
                                         inp[1], i.l0, i.l1, i.l2).ret
              cached == get_protection_gke_from_cache(root_keys, seed_keys, inp[1],
                                                      TargetSd(inp[2]), inp[3])
          IN /\ CallsOf(cached.calls, "compute_l2_key") # {} =>
                   source # None /\ Dominates(source, i.l1, i.l2)
             /\ (source # None /\ ~Dominates(source, i.l1, i.l2)) =>
                   (cached.ret # None /\ ~IsOk(cached.ret))

\* C24: for every time value now_ft (100 ns units since 1601), the
\* current-time index protect uses is L0 = floor(now_ft / (1024 * base)),
\* L1 = floor((now_ft mod 1024 * base) / (32 * base)),
\* L2 = floor((now_ft mod 32 * base) / base) with base = 360000000000, so
\* that 0 <= L1 <= 31, 0 <= L2 <= 31 and the interval of (L0, L1, L2)
\* contains now_ft: L0 * 1024 * base + L1 * 32 * base + L2 * base <= now_ft
\* < L0 * 1024 * base + L1 * 32 * base + (L2 + 1) * base.
TimeIndexIsFloor ==
    clock.stage = "index" =>
       /\ clock.index.l1 \in 0 .. 31 /\ clock.index.l2 \in 0 .. 31
       /\ clock.index = [l0 |-> clock.now.l0, l1 |-> clock.now.l1, l2 |-> clock.now.l2]

SyncAsyncEquivalent ==
    LET Same(S, A) ==
            /\ S = {o \in A : IsOk(o.result) \/ o.result.type # "CancelledError"}
            /\ \A o \in A \ S :
                 /\ o.result.at \in {"lookup_dc", "get_key"}
                 /\ o.calls[Len(o.calls)].call = o.result.at
                 /\ CallsOf(o.calls, "cache_store") = {}
                 /\ Held(o.seed_keys) = Held(seed_keys)
                 /\ \E o2 \in S :
                       /\ Len(o2.calls) >= Len(o.calls)
                       /\ SubSeq(o2.calls, 1, Len(o.calls)) = o.calls
    IN /\ \A b \in SlotBlobs \cup PublicBlobs \cup CorruptBlobs, server \in Servers :
            Same(ncrypt_unprotect_secret(root_keys, seed_keys, b, server),
                 async_ncrypt_unprotect_secret(root_keys, seed_keys, b, server))
       /\ \A inp \in ProtectInputs, server \in Servers :
            Same(ncrypt_protect_secret(root_keys, seed_keys, "hello", inp[2], inp[1], server, "domain.test", inp[3], Random),
                 async_ncrypt_protect_secret(root_keys, seed_keys, "hello", inp[2], inp[1], server, "domain.test", inp[3], Random))

\* A cache that holds a seed, and a blob it cannot serve: the blocking and
\* the async unprotect both go lookup, lookup_dc, get_key, store, decrypt
\* and return the plaintext, and the async one can also be cancelled in
\* get_key.
SyncAsyncEquivalentWitness ==
    /\ seed_keys # EmptyDict
    /\ \E b \in SlotBlobs :
         \E o \in ncrypt_unprotect_secret(root_keys, seed_keys, b, NoneStr) :
            /\ o.result = Ok("hello")
            /\ Len(o.calls) = 5
            /\ o.calls[4].call = "cache_store"
            /\ o \in async_ncrypt_unprotect_secret(root_keys, seed_keys, b, NoneStr)
            /\ \E c \in async_ncrypt_unprotect_secret(root_keys, seed_keys, b, NoneStr) :
                  /\ c.result = Err("CancelledError", "get_key")
                  /\ c.calls = SubSeq(o.calls, 1, 3)

SignedIndexEncoding ==
    LET ki == codec.input
        TwosComplement(n) == <<n % 256, (n \div 256) % 256, (n \div 65536) % 256,
                               (n \div 16777216) % 256>>
    IN (codec.stage \in {"ki_wire", "ki_out"} /\ codec.intact) =>
          /\ Len(codec.wire) >= 52
          /\ Slice(codec.wire, 12, 16) = TwosComplement(ki.l0)
          /\ Slice(codec.wire, 16, 20) = TwosComplement(ki.l1)
          /\ Slice(codec.wire, 20, 24) = TwosComplement(ki.l2)
          /\ codec.stage = "ki_out" =>
                /\ IsOk(codec.out)
                /\ codec.out.value.l0 = ki.l0
                /\ codec.out.value.l1 = ki.l1
                /\ codec.out.value.l2 = ki.l2

\* C30: every envelope in the seed cache sits in the slot named by its own
\* identity: the envelope at slot (root_key_id, target_sd, L0) has
\* root_key_identifier = root_key_id and l0 = L0; and a _store_key or a
\* _get_key for one slot adds, replaces and removes no envelope of any
\* other slot.
EnvelopeInOwnSlot ==
    LET OwnSlots == { <<id, sd, l0>> : id \in RootKeyIds, sd \in {TargetSd(s) : s \in SIDs},
                            l0 \in 0 .. MaxLow + 1 }
        OthersKept(after, k) ==
            /\ \A o \in OwnSlots \ {k} : SlotAt(after, o) = SlotAt(seed_keys, o)
            /\ \A id \in DOMAIN after : \A sd \in DOMAIN after[id] :
                  \A l0 \in DOMAIN after[id][sd] :
                     <<id, sd, l0>> \in OwnSlots
    IN /\ \A id \in DOMAIN seed_keys : \A sd \in DOMAIN seed_keys[id] :
             \A l0 \in DOMAIN seed_keys[id][sd] :
                /\ seed_keys[id][sd][l0].root_key_identifier = id
                /\ seed_keys[id][sd][l0].l0 = l0
       /\ \A t \in Targets \cup CallTargets, p \in IndexPairs, f \in {1, 2} :
             LET target_sd == TargetSd(t[2])
                 key       == ServerEnvelope(target_sd, t[1], t[3], p[1], p[2], f)
             IN /\ OthersKept(KeyCache_store_key(seed_keys, target_sd, key),
                              <<t[1], target_sd, t[3]>>)
                /\ OthersKept(KeyCache_get_key(root_keys, seed_keys, target_sd,
                                               t[1], t[3], p[1], p[2]).seed_keys,
                              <<t[1], target_sd, t[3]>>)

\* C30 witness: the cache holds envelopes in two slots, one put there by
\* _get_key from a registered root key and one stored as GetKey answered.
EnvelopeInOwnSlotWitness ==
    \E t, u \in RootKeyIds \X SIDs \X (0 .. MaxLow + 1) :
       LET a == SlotAt(seed_keys, <<t[1], TargetSd(t[2]), t[3]>>)
           b == SlotAt(seed_keys, <<u[1], TargetSd(u[2]), u[3]>>)
       IN /\ t # u /\ a # None /\ b # None
          /\ a.l2_key = EmptyBytes
          /\ b.l2_key # EmptyBytes

\* C31: a protect call served from the cache never writes its derived key
\* back.  In every state of the cache, after a call of ncrypt_protect_secret
\* (blocking or async) that made no GetKey request and returned a blob, every
\* slot holds what it held before or the (31, 31) envelope _get_key
\* synthesises from the registered root key: the envelope the call derived
\* for the index of the current time is put into no slot.
ProtectNeverStoresDerived ==
    \A inp \in ProtectInputs, server \in Servers :
       LET sd == TargetSd(inp[2])
           Served(o) == /\ IsOk(o.result)
                        /\ CallsOf(o.calls, "get_key") = {}
           Kept(o) ==
               \A id \in RootKeyIds, s \in SIDs, l0 \in 0 .. MaxLow + 1 :
                  LET k      == <<id, TargetSd(s), l0>>
                      before == SlotAt(seed_keys, k)
                      after  == SlotAt(o.seed_keys, k)
                  IN \/ after = before
                     \/ /\ id \in DOMAIN root_keys
                        /\ after = SynthesisedEnvelope(root_keys[id], TargetSd(s), id, l0)
       IN \A o \in ncrypt_protect_secret(root_keys, seed_keys, "hello", inp[2], inp[1], server, "domain.test", inp[3], Random)
                     \cup async_ncrypt_protect_secret(root_keys, seed_keys, "hello", inp[2], inp[1], server, "domain.test", inp[3], Random) :
             Served(o) => Kept(o)

\* C31 witness: the cache holds an envelope from which a protect call is
\* served, at an index below the envelope's own, and the slot holds that
\* envelope, not the derived one, when the call has returned its blob.
ProtectNeverStoresDerivedWitness ==
    \E inp \in ProtectInputs, server \in Servers :
       \E o \in ncrypt_protect_secret(root_keys, seed_keys, "hello", inp[2], inp[1], server, "domain.test", inp[3], Random) :
          LET k == <<inp[1], TargetSd(inp[2]), TimeIndex(inp[3]).l0>>
          IN /\ IsOk(o.result)
             /\ CallsOf(o.calls, "get_key") = {}
             /\ CallsOf(o.calls, "cache_store") # {}
             /\ SlotAt(seed_keys, k) # None
             /\ SlotAt(o.seed_keys, k) = SlotAt(seed_keys, k)
             /\ o.rk # SlotAt(seed_keys, k)
             /\ o.rk.l1_key = EmptyBytes /\ o.rk.l2_key # EmptyBytes

\* C32 (as claimed): every envelope that KeyCache._get_key returns for a
\* root_key_id with a registered RootKey is consistent with the key
\* registered now: also after load_key registered the root key when
\* envelopes for that id were already cached, or registered it again with
\* other key bytes, the seeds of the envelope returned derive from the
\* registered key.
ReturnedEnvelopeFromRegisteredKey ==
    \A t \in Targets \cup CallTargets, p \in IndexPairs, key \in {"none", "key-A", "key-B"} :
       LET sd  == TargetSd(t[2])
           rks == IF key = "none" THEN root_keys
                  ELSE KeyCache_load_key(root_keys, key, t[1], 1, "SP800_108_CTR_HMAC",
                                         None, "DH", None, 512, 2048)
           ret == KeyCache_get_key(rks, seed_keys, sd, t[1], t[3], p[1], p[2]).ret
       IN t[1] \in DOMAIN rks =>
             /\ ret # None
             /\ ret.l1_key # EmptyBytes \/ ret.l2_key # EmptyBytes
             /\ ret.l1_key # EmptyBytes => ret.l1_key.root = rks[t[1]].key
             /\ ret.l2_key # EmptyBytes => ret.l2_key.root = rks[t[1]].key

\* C32 (amended): every envelope that KeyCache._get_key returns for a
\* root_key_id with a registered RootKey is either the envelope the slot held
\* before the call, returned as it was cached, or an envelope whose seed
\* derives from the key registered now, also when load_key has just
\* registered that id, for the first time or again with other key bytes.
ReturnedEnvelopeCachedOrFromRegisteredKey ==
    \A t \in Targets \cup CallTargets, p \in IndexPairs, key \in {"none", "key-A", "key-B"} :
       LET sd  == TargetSd(t[2])
           rks == IF key = "none" THEN root_keys
                  ELSE KeyCache_load_key(root_keys, key, t[1], 1, "SP800_108_CTR_HMAC",
                                         None, "DH", None, 512, 2048)
           ret == KeyCache_get_key(rks, seed_keys, sd, t[1], t[3], p[1], p[2]).ret
       IN t[1] \in DOMAIN rks =>
             /\ ret # None
             /\ \/ ret = SlotAt(seed_keys, <<t[1], sd, t[3]>>)
                \/ /\ ret.l1_key # EmptyBytes
                   /\ ret.l1_key.root = rks[t[1]].key
                   /\ ret.l2_key = EmptyBytes

\* C32 witness: a root key is registered for an id whose slot holds an
\* envelope cached from RPC that does not derive from it, and another slot
\* of a registered id is empty, so that _get_key synthesises there.
ReturnedEnvelopeCachedOrFromRegisteredKeyWitness ==
    /\ \E t \in Targets \cup CallTargets :
          LET e == SlotAt(seed_keys, <<t[1], TargetSd(t[2]), t[3]>>)
          IN /\ t[1] \in DOMAIN root_keys
             /\ e # None
             /\ e.l2_key # EmptyBytes
             /\ e.l2_key.root # root_keys[t[1]].key
             /\ KeyCache_get_key(root_keys, seed_keys, TargetSd(t[2]), t[1], t[3], 0, 0).ret = e
    /\ \E t \in Targets \cup CallTargets :
          /\ t[1] \in DOMAIN root_keys
          /\ SlotAt(seed_keys, <<t[1], TargetSd(t[2]), t[3]>>) = None

=============================================================================
